---- MODULE Spec2Model ----
(***************************************************************************)
(* BucketedBatchSampler of fastNLP/core/samplers/reproducible_batch_sampler *)
(* (and, further down, the ReproducibleBatchSampler of the same file)       *)
(* as a state machine: one sampler object per process, its generator frame  *)
(* (the suspended __iter__), and the checkpoint dictionaries that travel    *)
(* between sampler objects.  Dataset indices are 0-based as in the code;    *)
(* TLA+ sequences are 1-based, so sample i has its length at length[i + 1]. *)
(*                                                                         *)
(* numpy is modelled by what the calls do on the sizes used here:           *)
(*   np.argsort(x)        ascending insertion sort (numpy's introsort falls *)
(*                        back to it below 17 elements), hence stable;      *)
(*   np.array_split(x, n) n equal consecutive chunks (len(x) is n * size);  *)
(*   np.array(batches)    a ragged list of batches becomes an object array  *)
(*                        (the numpy releases the sampler was written for); *)
(*   default_rng(seed).shuffle  Fisher-Yates over PCG64, tabulated below.   *)
(***************************************************************************)
EXTENDS Integers, Sequences, FiniteSets, TLC

(***************************************************************************)
(* Bounds of the model.                                                    *)
(***************************************************************************)
MaxN == 5
MaxBatch == 2
MaxReplicas == 2
MaxPasses == 2
MaxRestarts == 2

(***************************************************************************)
(* numpy.random.default_rng(seed).shuffle: ShuffleTable(seed, c, size, n)   *)
(* is the permutation applied by a generator seeded with `seed` that has    *)
(* already shuffled c lists of `size` elements each (size 0 when c = 0)     *)
(* and now shuffles n elements; the value p places the element that stood   *)
(* at position p[k] at position k.  Computed from SeedSequence -> PCG64     *)
(* (XSL-RR 128/64) -> next_uint32 -> random_interval (masked rejection),    *)
(* the draws Generator.shuffle makes for i = n-1 .. 1.                      *)
(***************************************************************************)
ShuffleTable(seed, c, size, n) ==
  CASE seed = 0 ->
         (CASE <<c, size, n>> = <<0, 0, 2>> -> <<1, 2>>
            [] <<c, size, n>> = <<0, 0, 3>> -> <<3, 1, 2>>
            [] <<c, size, n>> = <<0, 0, 4>> -> <<3, 1, 2, 4>>
            [] <<c, size, n>> = <<0, 0, 5>> -> <<3, 5, 4, 1, 2>>
            [] <<c, size, n>> = <<0, 0, 6>> -> <<4, 3, 6, 5, 1, 2>>
            [] <<c, size, n>> = <<0, 0, 7>> -> <<3, 5, 4, 7, 6, 1, 2>>
            [] <<c, size, n>> = <<0, 0, 8>> -> <<3, 5, 4, 7, 6, 1, 2, 8>>
            [] <<c, size, n>> = <<0, 0, 9>> -> <<5, 6, 3, 7, 4, 9, 8, 1, 2>>
            [] <<c, size, n>> = <<0, 0, 10>> -> <<5, 7, 3, 8, 4, 6, 10, 1, 9, 2>>
            [] <<c, size, n>> = <<0, 0, 11>> -> <<5, 7, 8, 3, 1, 4, 6, 11, 10, 9, 2>>
            [] <<c, size, n>> = <<1, 2, 2>> -> <<1, 2>>
            [] <<c, size, n>> = <<1, 3, 2>> -> <<2, 1>>
            [] <<c, size, n>> = <<1, 3, 3>> -> <<3, 2, 1>>
            [] <<c, size, n>> = <<1, 4, 2>> -> <<2, 1>>
            [] <<c, size, n>> = <<1, 4, 3>> -> <<3, 2, 1>>
            [] <<c, size, n>> = <<1, 4, 4>> -> <<4, 3, 2, 1>>
            [] <<c, size, n>> = <<1, 5, 2>> -> <<1, 2>>
            [] <<c, size, n>> = <<1, 5, 3>> -> <<3, 1, 2>>
            [] <<c, size, n>> = <<1, 5, 4>> -> <<1, 4, 3, 2>>
            [] <<c, size, n>> = <<1, 5, 5>> -> <<5, 2, 3, 1, 4>>
            [] <<c, size, n>> = <<1, 6, 2>> -> <<2, 1>>
            [] <<c, size, n>> = <<1, 6, 3>> -> <<1, 2, 3>>
            [] <<c, size, n>> = <<1, 6, 4>> -> <<2, 4, 1, 3>>
            [] <<c, size, n>> = <<1, 6, 5>> -> <<5, 2, 3, 1, 4>>
            [] <<c, size, n>> = <<1, 7, 2>> -> <<1, 2>>
            [] <<c, size, n>> = <<1, 7, 3>> -> <<2, 3, 1>>
            [] <<c, size, n>> = <<1, 7, 4>> -> <<2, 3, 1, 4>>
            [] <<c, size, n>> = <<1, 8, 2>> -> <<1, 2>>
            [] <<c, size, n>> = <<1, 8, 3>> -> <<2, 3, 1>>
            [] <<c, size, n>> = <<1, 9, 2>> -> <<1, 2>>
            [] <<c, size, n>> = <<2, 2, 2>> -> <<1, 2>>
            [] <<c, size, n>> = <<2, 3, 2>> -> <<1, 2>>
            [] <<c, size, n>> = <<2, 3, 3>> -> <<3, 1, 2>>
            [] <<c, size, n>> = <<2, 4, 2>> -> <<2, 1>>
            [] <<c, size, n>> = <<2, 4, 3>> -> <<1, 2, 3>>
            [] <<c, size, n>> = <<3, 2, 2>> -> <<2, 1>>
            [] <<c, size, n>> = <<3, 3, 2>> -> <<1, 2>>
            [] <<c, size, n>> = <<4, 2, 2>> -> <<2, 1>>
         )
    [] seed = 1 ->
         (CASE <<c, size, n>> = <<0, 0, 2>> -> <<1, 2>>
            [] <<c, size, n>> = <<0, 0, 3>> -> <<1, 2, 3>>
            [] <<c, size, n>> = <<0, 0, 4>> -> <<1, 2, 3, 4>>
            [] <<c, size, n>> = <<0, 0, 5>> -> <<5, 1, 2, 3, 4>>
            [] <<c, size, n>> = <<0, 0, 6>> -> <<5, 1, 3, 2, 6, 4>>
            [] <<c, size, n>> = <<0, 0, 7>> -> <<6, 1, 2, 5, 3, 7, 4>>
            [] <<c, size, n>> = <<0, 0, 8>> -> <<6, 1, 2, 5, 3, 7, 4, 8>>
            [] <<c, size, n>> = <<0, 0, 9>> -> <<8, 1, 2, 5, 3, 6, 9, 7, 4>>
            [] <<c, size, n>> = <<0, 0, 10>> -> <<9, 5, 8, 1, 2, 3, 6, 10, 7, 4>>
            [] <<c, size, n>> = <<0, 0, 11>> -> <<8, 11, 6, 5, 1, 2, 9, 3, 10, 7, 4>>
            [] <<c, size, n>> = <<1, 2, 2>> -> <<1, 2>>
            [] <<c, size, n>> = <<1, 3, 2>> -> <<1, 2>>
            [] <<c, size, n>> = <<1, 3, 3>> -> <<3, 1, 2>>
            [] <<c, size, n>> = <<1, 4, 2>> -> <<1, 2>>
            [] <<c, size, n>> = <<1, 4, 3>> -> <<3, 1, 2>>
            [] <<c, size, n>> = <<1, 4, 4>> -> <<4, 1, 3, 2>>
            [] <<c, size, n>> = <<1, 5, 2>> -> <<2, 1>>
            [] <<c, size, n>> = <<1, 5, 3>> -> <<2, 1, 3>>
            [] <<c, size, n>> = <<1, 5, 4>> -> <<1, 2, 4, 3>>
            [] <<c, size, n>> = <<1, 5, 5>> -> <<4, 1, 2, 5, 3>>
            [] <<c, size, n>> = <<1, 6, 2>> -> <<2, 1>>
            [] <<c, size, n>> = <<1, 6, 3>> -> <<1, 2, 3>>
            [] <<c, size, n>> = <<1, 6, 4>> -> <<4, 1, 2, 3>>
            [] <<c, size, n>> = <<1, 6, 5>> -> <<3, 5, 4, 1, 2>>
            [] <<c, size, n>> = <<1, 7, 2>> -> <<2, 1>>
            [] <<c, size, n>> = <<1, 7, 3>> -> <<3, 2, 1>>
            [] <<c, size, n>> = <<1, 7, 4>> -> <<3, 4, 2, 1>>
            [] <<c, size, n>> = <<1, 8, 2>> -> <<2, 1>>
            [] <<c, size, n>> = <<1, 8, 3>> -> <<3, 2, 1>>
            [] <<c, size, n>> = <<1, 9, 2>> -> <<2, 1>>
            [] <<c, size, n>> = <<2, 2, 2>> -> <<2, 1>>
            [] <<c, size, n>> = <<2, 3, 2>> -> <<2, 1>>
            [] <<c, size, n>> = <<2, 3, 3>> -> <<2, 1, 3>>
            [] <<c, size, n>> = <<2, 4, 2>> -> <<2, 1>>
            [] <<c, size, n>> = <<2, 4, 3>> -> <<1, 2, 3>>
            [] <<c, size, n>> = <<3, 2, 2>> -> <<1, 2>>
            [] <<c, size, n>> = <<3, 3, 2>> -> <<1, 2>>
            [] <<c, size, n>> = <<4, 2, 2>> -> <<1, 2>>
         )
    [] seed = 2 ->
         (CASE <<c, size, n>> = <<0, 0, 2>> -> <<1, 2>>
            [] <<c, size, n>> = <<0, 0, 3>> -> <<3, 1, 2>>
            [] <<c, size, n>> = <<0, 0, 4>> -> <<4, 3, 1, 2>>
            [] <<c, size, n>> = <<0, 0, 5>> -> <<3, 5, 4, 1, 2>>
            [] <<c, size, n>> = <<0, 0, 6>> -> <<4, 6, 3, 5, 1, 2>>
            [] <<c, size, n>> = <<0, 0, 7>> -> <<6, 7, 3, 4, 5, 1, 2>>
            [] <<c, size, n>> = <<0, 0, 8>> -> <<7, 6, 8, 3, 4, 5, 1, 2>>
            [] <<c, size, n>> = <<0, 0, 9>> -> <<3, 8, 7, 6, 9, 4, 5, 1, 2>>
            [] <<c, size, n>> = <<0, 0, 10>> -> <<3, 1, 8, 7, 10, 6, 4, 5, 9, 2>>
            [] <<c, size, n>> = <<0, 0, 11>> -> <<3, 1, 10, 8, 11, 6, 7, 4, 5, 9, 2>>
            [] <<c, size, n>> = <<1, 2, 2>> -> <<2, 1>>
            [] <<c, size, n>> = <<1, 3, 2>> -> <<2, 1>>
            [] <<c, size, n>> = <<1, 3, 3>> -> <<3, 2, 1>>
            [] <<c, size, n>> = <<1, 4, 2>> -> <<1, 2>>
            [] <<c, size, n>> = <<1, 4, 3>> -> <<1, 2, 3>>
            [] <<c, size, n>> = <<1, 4, 4>> -> <<1, 2, 3, 4>>
            [] <<c, size, n>> = <<1, 5, 2>> -> <<2, 1>>
            [] <<c, size, n>> = <<1, 5, 3>> -> <<1, 2, 3>>
            [] <<c, size, n>> = <<1, 5, 4>> -> <<1, 4, 2, 3>>
            [] <<c, size, n>> = <<1, 5, 5>> -> <<3, 1, 5, 4, 2>>
            [] <<c, size, n>> = <<1, 6, 2>> -> <<1, 2>>
            [] <<c, size, n>> = <<1, 6, 3>> -> <<1, 3, 2>>
            [] <<c, size, n>> = <<1, 6, 4>> -> <<1, 3, 4, 2>>
            [] <<c, size, n>> = <<1, 6, 5>> -> <<3, 1, 5, 4, 2>>
            [] <<c, size, n>> = <<1, 7, 2>> -> <<1, 2>>
            [] <<c, size, n>> = <<1, 7, 3>> -> <<1, 3, 2>>
            [] <<c, size, n>> = <<1, 7, 4>> -> <<1, 3, 4, 2>>
            [] <<c, size, n>> = <<1, 8, 2>> -> <<1, 2>>
            [] <<c, size, n>> = <<1, 8, 3>> -> <<1, 3, 2>>
            [] <<c, size, n>> = <<1, 9, 2>> -> <<1, 2>>
            [] <<c, size, n>> = <<2, 2, 2>> -> <<2, 1>>
            [] <<c, size, n>> = <<2, 3, 2>> -> <<2, 1>>
            [] <<c, size, n>> = <<2, 3, 3>> -> <<1, 2, 3>>
            [] <<c, size, n>> = <<2, 4, 2>> -> <<1, 2>>
            [] <<c, size, n>> = <<2, 4, 3>> -> <<1, 3, 2>>
            [] <<c, size, n>> = <<3, 2, 2>> -> <<1, 2>>
            [] <<c, size, n>> = <<3, 3, 2>> -> <<1, 2>>
            [] <<c, size, n>> = <<4, 2, 2>> -> <<2, 1>>
         )
    [] seed = 3 ->
         (CASE <<c, size, n>> = <<0, 0, 2>> -> <<2, 1>>
            [] <<c, size, n>> = <<0, 0, 3>> -> <<3, 2, 1>>
            [] <<c, size, n>> = <<0, 0, 4>> -> <<4, 3, 2, 1>>
            [] <<c, size, n>> = <<0, 0, 5>> -> <<5, 3, 2, 4, 1>>
            [] <<c, size, n>> = <<0, 0, 6>> -> <<3, 6, 5, 2, 4, 1>>
            [] <<c, size, n>> = <<0, 0, 7>> -> <<6, 7, 3, 2, 5, 4, 1>>
            [] <<c, size, n>> = <<0, 0, 8>> -> <<7, 8, 3, 2, 5, 6, 4, 1>>
            [] <<c, size, n>> = <<0, 0, 9>> -> <<8, 1, 3, 2, 5, 7, 6, 4, 9>>
            [] <<c, size, n>> = <<0, 0, 10>> -> <<10, 7, 1, 3, 2, 5, 8, 6, 4, 9>>
            [] <<c, size, n>> = <<0, 0, 11>> -> <<10, 8, 1, 3, 2, 5, 7, 11, 6, 4, 9>>
            [] <<c, size, n>> = <<1, 2, 2>> -> <<1, 2>>
            [] <<c, size, n>> = <<1, 3, 2>> -> <<1, 2>>
            [] <<c, size, n>> = <<1, 3, 3>> -> <<1, 3, 2>>
            [] <<c, size, n>> = <<1, 4, 2>> -> <<2, 1>>
            [] <<c, size, n>> = <<1, 4, 3>> -> <<1, 2, 3>>
            [] <<c, size, n>> = <<1, 4, 4>> -> <<4, 2, 1, 3>>
            [] <<c, size, n>> = <<1, 5, 2>> -> <<2, 1>>
            [] <<c, size, n>> = <<1, 5, 3>> -> <<1, 2, 3>>
            [] <<c, size, n>> = <<1, 5, 4>> -> <<4, 2, 1, 3>>
            [] <<c, size, n>> = <<1, 5, 5>> -> <<4, 1, 3, 2, 5>>
            [] <<c, size, n>> = <<1, 6, 2>> -> <<1, 2>>
            [] <<c, size, n>> = <<1, 6, 3>> -> <<3, 2, 1>>
            [] <<c, size, n>> = <<1, 6, 4>> -> <<3, 2, 1, 4>>
            [] <<c, size, n>> = <<1, 6, 5>> -> <<4, 1, 3, 2, 5>>
            [] <<c, size, n>> = <<1, 7, 2>> -> <<1, 2>>
            [] <<c, size, n>> = <<1, 7, 3>> -> <<2, 1, 3>>
            [] <<c, size, n>> = <<1, 7, 4>> -> <<2, 1, 3, 4>>
            [] <<c, size, n>> = <<1, 8, 2>> -> <<1, 2>>
            [] <<c, size, n>> = <<1, 8, 3>> -> <<2, 1, 3>>
            [] <<c, size, n>> = <<1, 9, 2>> -> <<1, 2>>
            [] <<c, size, n>> = <<2, 2, 2>> -> <<1, 2>>
            [] <<c, size, n>> = <<2, 3, 2>> -> <<2, 1>>
            [] <<c, size, n>> = <<2, 3, 3>> -> <<1, 2, 3>>
            [] <<c, size, n>> = <<2, 4, 2>> -> <<2, 1>>
            [] <<c, size, n>> = <<2, 4, 3>> -> <<2, 1, 3>>
            [] <<c, size, n>> = <<3, 2, 2>> -> <<1, 2>>
            [] <<c, size, n>> = <<3, 3, 2>> -> <<2, 1>>
            [] <<c, size, n>> = <<4, 2, 2>> -> <<2, 1>>
         )
    [] seed = 4 ->
         (CASE <<c, size, n>> = <<0, 0, 2>> -> <<2, 1>>
            [] <<c, size, n>> = <<0, 0, 3>> -> <<1, 2, 3>>
            [] <<c, size, n>> = <<0, 0, 4>> -> <<4, 1, 2, 3>>
            [] <<c, size, n>> = <<0, 0, 5>> -> <<3, 5, 1, 2, 4>>
            [] <<c, size, n>> = <<0, 0, 6>> -> <<2, 3, 1, 6, 5, 4>>
            [] <<c, size, n>> = <<0, 0, 7>> -> <<2, 3, 1, 6, 5, 4, 7>>
            [] <<c, size, n>> = <<0, 0, 8>> -> <<2, 3, 1, 8, 5, 6, 4, 7>>
            [] <<c, size, n>> = <<0, 0, 9>> -> <<1, 2, 3, 9, 7, 8, 4, 5, 6>>
            [] <<c, size, n>> = <<0, 0, 10>> -> <<2, 1, 8, 3, 10, 9, 7, 5, 4, 6>>
            [] <<c, size, n>> = <<0, 0, 11>> -> <<2, 1, 9, 3, 11, 10, 8, 7, 5, 4, 6>>
            [] <<c, size, n>> = <<1, 2, 2>> -> <<1, 2>>
            [] <<c, size, n>> = <<1, 3, 2>> -> <<1, 2>>
            [] <<c, size, n>> = <<1, 3, 3>> -> <<3, 1, 2>>
            [] <<c, size, n>> = <<1, 4, 2>> -> <<1, 2>>
            [] <<c, size, n>> = <<1, 4, 3>> -> <<2, 3, 1>>
            [] <<c, size, n>> = <<1, 4, 4>> -> <<2, 3, 1, 4>>
            [] <<c, size, n>> = <<1, 5, 2>> -> <<2, 1>>
            [] <<c, size, n>> = <<1, 5, 3>> -> <<2, 3, 1>>
            [] <<c, size, n>> = <<1, 5, 4>> -> <<2, 4, 3, 1>>
            [] <<c, size, n>> = <<1, 5, 5>> -> <<1, 2, 4, 3, 5>>
            [] <<c, size, n>> = <<1, 6, 2>> -> <<2, 1>>
            [] <<c, size, n>> = <<1, 6, 3>> -> <<1, 2, 3>>
            [] <<c, size, n>> = <<1, 6, 4>> -> <<1, 2, 4, 3>>
            [] <<c, size, n>> = <<1, 6, 5>> -> <<1, 2, 3, 5, 4>>
            [] <<c, size, n>> = <<1, 7, 2>> -> <<2, 1>>
            [] <<c, size, n>> = <<1, 7, 3>> -> <<1, 2, 3>>
            [] <<c, size, n>> = <<1, 7, 4>> -> <<1, 2, 4, 3>>
            [] <<c, size, n>> = <<1, 8, 2>> -> <<2, 1>>
            [] <<c, size, n>> = <<1, 8, 3>> -> <<1, 2, 3>>
            [] <<c, size, n>> = <<1, 9, 2>> -> <<1, 2>>
            [] <<c, size, n>> = <<2, 2, 2>> -> <<1, 2>>
            [] <<c, size, n>> = <<2, 3, 2>> -> <<1, 2>>
            [] <<c, size, n>> = <<2, 3, 3>> -> <<2, 3, 1>>
            [] <<c, size, n>> = <<2, 4, 2>> -> <<2, 1>>
            [] <<c, size, n>> = <<2, 4, 3>> -> <<1, 2, 3>>
            [] <<c, size, n>> = <<3, 2, 2>> -> <<2, 1>>
            [] <<c, size, n>> = <<3, 3, 2>> -> <<2, 1>>
            [] <<c, size, n>> = <<4, 2, 2>> -> <<1, 2>>
         )
    [] seed = 5 ->
         (CASE <<c, size, n>> = <<0, 0, 2>> -> <<2, 1>>
            [] <<c, size, n>> = <<0, 0, 3>> -> <<2, 3, 1>>
            [] <<c, size, n>> = <<0, 0, 4>> -> <<4, 2, 3, 1>>
            [] <<c, size, n>> = <<0, 0, 5>> -> <<5, 4, 2, 3, 1>>
            [] <<c, size, n>> = <<0, 0, 6>> -> <<2, 5, 3, 4, 6, 1>>
            [] <<c, size, n>> = <<0, 0, 7>> -> <<2, 5, 3, 4, 7, 6, 1>>
            [] <<c, size, n>> = <<0, 0, 8>> -> <<2, 5, 3, 4, 8, 6, 7, 1>>
            [] <<c, size, n>> = <<0, 0, 9>> -> <<2, 5, 3, 4, 1, 8, 6, 7, 9>>
            [] <<c, size, n>> = <<0, 0, 10>> -> <<8, 7, 2, 4, 3, 5, 1, 10, 6, 9>>
            [] <<c, size, n>> = <<0, 0, 11>> -> <<11, 8, 2, 4, 3, 5, 7, 1, 10, 6, 9>>
            [] <<c, size, n>> = <<1, 2, 2>> -> <<2, 1>>
            [] <<c, size, n>> = <<1, 3, 2>> -> <<1, 2>>
            [] <<c, size, n>> = <<1, 3, 3>> -> <<1, 3, 2>>
            [] <<c, size, n>> = <<1, 4, 2>> -> <<1, 2>>
            [] <<c, size, n>> = <<1, 4, 3>> -> <<3, 1, 2>>
            [] <<c, size, n>> = <<1, 4, 4>> -> <<3, 4, 1, 2>>
            [] <<c, size, n>> = <<1, 5, 2>> -> <<2, 1>>
            [] <<c, size, n>> = <<1, 5, 3>> -> <<3, 2, 1>>
            [] <<c, size, n>> = <<1, 5, 4>> -> <<2, 4, 3, 1>>
            [] <<c, size, n>> = <<1, 5, 5>> -> <<2, 5, 3, 4, 1>>
            [] <<c, size, n>> = <<1, 6, 2>> -> <<1, 2>>
            [] <<c, size, n>> = <<1, 6, 3>> -> <<3, 1, 2>>
            [] <<c, size, n>> = <<1, 6, 4>> -> <<1, 4, 3, 2>>
            [] <<c, size, n>> = <<1, 6, 5>> -> <<5, 1, 2, 4, 3>>
            [] <<c, size, n>> = <<1, 7, 2>> -> <<1, 2>>
            [] <<c, size, n>> = <<1, 7, 3>> -> <<3, 1, 2>>
            [] <<c, size, n>> = <<1, 7, 4>> -> <<1, 4, 3, 2>>
            [] <<c, size, n>> = <<1, 8, 2>> -> <<1, 2>>
            [] <<c, size, n>> = <<1, 8, 3>> -> <<3, 1, 2>>
            [] <<c, size, n>> = <<1, 9, 2>> -> <<1, 2>>
            [] <<c, size, n>> = <<2, 2, 2>> -> <<1, 2>>
            [] <<c, size, n>> = <<2, 3, 2>> -> <<2, 1>>
            [] <<c, size, n>> = <<2, 3, 3>> -> <<3, 2, 1>>
            [] <<c, size, n>> = <<2, 4, 2>> -> <<2, 1>>
            [] <<c, size, n>> = <<2, 4, 3>> -> <<2, 1, 3>>
            [] <<c, size, n>> = <<3, 2, 2>> -> <<1, 2>>
            [] <<c, size, n>> = <<3, 3, 2>> -> <<2, 1>>
            [] <<c, size, n>> = <<4, 2, 2>> -> <<2, 1>>
         )
    [] seed = 6 ->
         (CASE <<c, size, n>> = <<0, 0, 2>> -> <<2, 1>>
            [] <<c, size, n>> = <<0, 0, 3>> -> <<1, 2, 3>>
            [] <<c, size, n>> = <<0, 0, 4>> -> <<1, 4, 2, 3>>
            [] <<c, size, n>> = <<0, 0, 5>> -> <<3, 5, 1, 4, 2>>
            [] <<c, size, n>> = <<0, 0, 6>> -> <<3, 4, 1, 6, 5, 2>>
            [] <<c, size, n>> = <<0, 0, 7>> -> <<3, 4, 1, 6, 5, 2, 7>>
            [] <<c, size, n>> = <<0, 0, 8>> -> <<3, 6, 4, 8, 1, 5, 2, 7>>
            [] <<c, size, n>> = <<0, 0, 9>> -> <<3, 7, 4, 9, 1, 6, 5, 8, 2>>
            [] <<c, size, n>> = <<0, 0, 10>> -> <<3, 7, 4, 10, 1, 6, 5, 9, 8, 2>>
            [] <<c, size, n>> = <<0, 0, 11>> -> <<5, 10, 3, 11, 7, 4, 9, 1, 6, 8, 2>>
            [] <<c, size, n>> = <<1, 2, 2>> -> <<1, 2>>
            [] <<c, size, n>> = <<1, 3, 2>> -> <<1, 2>>
            [] <<c, size, n>> = <<1, 3, 3>> -> <<3, 2, 1>>
            [] <<c, size, n>> = <<1, 4, 2>> -> <<1, 2>>
            [] <<c, size, n>> = <<1, 4, 3>> -> <<3, 2, 1>>
            [] <<c, size, n>> = <<1, 4, 4>> -> <<3, 2, 1, 4>>
            [] <<c, size, n>> = <<1, 5, 2>> -> <<2, 1>>
            [] <<c, size, n>> = <<1, 5, 3>> -> <<3, 2, 1>>
            [] <<c, size, n>> = <<1, 5, 4>> -> <<4, 3, 2, 1>>
            [] <<c, size, n>> = <<1, 5, 5>> -> <<3, 5, 4, 2, 1>>
            [] <<c, size, n>> = <<1, 6, 2>> -> <<1, 2>>
            [] <<c, size, n>> = <<1, 6, 3>> -> <<3, 1, 2>>
            [] <<c, size, n>> = <<1, 6, 4>> -> <<3, 1, 2, 4>>
            [] <<c, size, n>> = <<1, 6, 5>> -> <<3, 1, 2, 5, 4>>
            [] <<c, size, n>> = <<1, 7, 2>> -> <<1, 2>>
            [] <<c, size, n>> = <<1, 7, 3>> -> <<3, 1, 2>>
            [] <<c, size, n>> = <<1, 7, 4>> -> <<3, 1, 2, 4>>
            [] <<c, size, n>> = <<1, 8, 2>> -> <<2, 1>>
            [] <<c, size, n>> = <<1, 8, 3>> -> <<3, 2, 1>>
            [] <<c, size, n>> = <<1, 9, 2>> -> <<2, 1>>
            [] <<c, size, n>> = <<2, 2, 2>> -> <<1, 2>>
            [] <<c, size, n>> = <<2, 3, 2>> -> <<2, 1>>
            [] <<c, size, n>> = <<2, 3, 3>> -> <<3, 2, 1>>
            [] <<c, size, n>> = <<2, 4, 2>> -> <<2, 1>>
            [] <<c, size, n>> = <<2, 4, 3>> -> <<3, 2, 1>>
            [] <<c, size, n>> = <<3, 2, 2>> -> <<1, 2>>
            [] <<c, size, n>> = <<3, 3, 2>> -> <<1, 2>>
            [] <<c, size, n>> = <<4, 2, 2>> -> <<1, 2>>
         )
    [] seed = 7 ->
         (CASE <<c, size, n>> = <<0, 0, 2>> -> <<1, 2>>
            [] <<c, size, n>> = <<0, 0, 3>> -> <<1, 3, 2>>
            [] <<c, size, n>> = <<0, 0, 4>> -> <<1, 3, 2, 4>>
            [] <<c, size, n>> = <<0, 0, 5>> -> <<3, 1, 5, 2, 4>>
            [] <<c, size, n>> = <<0, 0, 6>> -> <<6, 3, 1, 5, 2, 4>>
            [] <<c, size, n>> = <<0, 0, 7>> -> <<1, 6, 7, 3, 5, 2, 4>>
            [] <<c, size, n>> = <<0, 0, 8>> -> <<1, 7, 8, 3, 5, 6, 2, 4>>
            [] <<c, size, n>> = <<0, 0, 9>> -> <<9, 1, 8, 2, 4, 7, 3, 5, 6>>
            [] <<c, size, n>> = <<0, 0, 10>> -> <<9, 1, 8, 2, 4, 7, 3, 5, 6, 10>>
            [] <<c, size, n>> = <<0, 0, 11>> -> <<5, 7, 11, 1, 2, 4, 9, 8, 3, 6, 10>>
            [] <<c, size, n>> = <<1, 2, 2>> -> <<1, 2>>
            [] <<c, size, n>> = <<1, 3, 2>> -> <<2, 1>>
            [] <<c, size, n>> = <<1, 3, 3>> -> <<2, 3, 1>>
            [] <<c, size, n>> = <<1, 4, 2>> -> <<2, 1>>
            [] <<c, size, n>> = <<1, 4, 3>> -> <<2, 3, 1>>
            [] <<c, size, n>> = <<1, 4, 4>> -> <<4, 2, 3, 1>>
            [] <<c, size, n>> = <<1, 5, 2>> -> <<2, 1>>
            [] <<c, size, n>> = <<1, 5, 3>> -> <<1, 2, 3>>
            [] <<c, size, n>> = <<1, 5, 4>> -> <<1, 2, 4, 3>>
            [] <<c, size, n>> = <<1, 5, 5>> -> <<1, 2, 5, 4, 3>>
            [] <<c, size, n>> = <<1, 6, 2>> -> <<1, 2>>
            [] <<c, size, n>> = <<1, 6, 3>> -> <<1, 2, 3>>
            [] <<c, size, n>> = <<1, 6, 4>> -> <<1, 2, 3, 4>>
            [] <<c, size, n>> = <<1, 6, 5>> -> <<1, 5, 2, 4, 3>>
            [] <<c, size, n>> = <<1, 7, 2>> -> <<1, 2>>
            [] <<c, size, n>> = <<1, 7, 3>> -> <<1, 3, 2>>
            [] <<c, size, n>> = <<1, 7, 4>> -> <<3, 1, 4, 2>>
            [] <<c, size, n>> = <<1, 8, 2>> -> <<1, 2>>
            [] <<c, size, n>> = <<1, 8, 3>> -> <<1, 3, 2>>
            [] <<c, size, n>> = <<1, 9, 2>> -> <<1, 2>>
            [] <<c, size, n>> = <<2, 2, 2>> -> <<1, 2>>
            [] <<c, size, n>> = <<2, 3, 2>> -> <<1, 2>>
            [] <<c, size, n>> = <<2, 3, 3>> -> <<1, 2, 3>>
            [] <<c, size, n>> = <<2, 4, 2>> -> <<2, 1>>
            [] <<c, size, n>> = <<2, 4, 3>> -> <<1, 2, 3>>
            [] <<c, size, n>> = <<3, 2, 2>> -> <<2, 1>>
            [] <<c, size, n>> = <<3, 3, 2>> -> <<1, 2>>
            [] <<c, size, n>> = <<4, 2, 2>> -> <<2, 1>>
         )

(***************************************************************************)
(* Small list helpers (Python list operations used by the sampler).         *)
(***************************************************************************)
Min(a, b) == IF a <= b THEN a ELSE b

Abs(x) == IF x < 0 THEN -x ELSE x

\* math.ceil(a / b) and math.floor(a / b) for b > 0
CeilDiv(a, b) == -((-a) \div b)

FloorDiv(a, b) == a \div b

\* x[k:]
DropFirst(x, k) == IF k >= Len(x) THEN <<>> ELSE SubSeq(x, k + 1, Len(x))

\* x[start:len(x):step]
Strided(x, start, step) ==
  [i \in 1..((Len(x) - start + step - 1) \div step) |-> x[start + (i - 1) * step + 1]]

RECURSIVE Chain(_)
\* list(chain(*batches))
Chain(batches) ==
  IF batches = <<>> THEN <<>> ELSE Head(batches) \o Chain(Tail(batches))

RECURSIVE SumLen(_)
\* len(list(chain(*batches)))
SumLen(batches) ==
  IF batches = <<>> THEN 0 ELSE Len(Head(batches)) + SumLen(Tail(batches))

\* The elements of a sequence, and whether none occurs twice.
Elems(x) == {x[i] : i \in 1..Len(x)}

NoDup(x) == Cardinality(Elems(x)) = Len(x)

\* np.argsort(vals) without the reversal: positions by ascending value
ArgsortAsc(vals) ==
  LET n == Len(vals)
      Before(j, i) == vals[j] < vals[i] \/ (vals[j] = vals[i] /\ j < i)
  IN [p \in 1..n |->
        (CHOOSE i \in 1..n : Cardinality({j \in 1..n : Before(j, i)}) = p - 1) - 1]

\* a stable descending sort: of equal values the smaller position first
ArgsortDescStable(vals) ==
  LET n == Len(vals)
      Before(j, i) == vals[j] > vals[i] \/ (vals[j] = vals[i] /\ j < i)
  IN [p \in 1..n |->
        (CHOOSE i \in 1..n : Cardinality({j \in 1..n : Before(j, i)}) = p - 1) - 1]

(***************************************************************************)
(* np.argsort(vals)[::-1]: positions (0-based) by descending value; the     *)
(* ascending sort is stable, so after the reversal equal values appear      *)
(* with the larger position first.                                         *)
(***************************************************************************)
ArgsortDesc(vals) ==
  LET n == Len(vals)
      Before(j, i) == vals[j] > vals[i] \/ (vals[j] = vals[i] /\ j > i)
  IN [p \in 1..n |->
        (CHOOSE i \in 1..n : Cardinality({j \in 1..n : Before(j, i)}) = p - 1) - 1]

(***************************************************************************)
(* rng.shuffle(x) as the (c+1)-th shuffle of a generator default_rng(seed)  *)
(* that has shuffled c lists of `size` elements before.  Lists of fewer     *)
(* than two elements draw nothing.                                         *)
(***************************************************************************)
Permute(x, p) == [k \in 1..Len(x) |-> x[p[k]]]

Shuffle(seed, c, size, x) ==
  IF Len(x) < 2 THEN x
  ELSE Permute(x, ShuffleTable(seed,
                               IF c = 0 \/ size < 2 THEN 0 ELSE c,
                               IF c = 0 \/ size < 2 THEN 0 ELSE size,
                               Len(x)))

(***************************************************************************)
(* The batches of one bucket (lines 333-339): full batches, then the short  *)
(* rest of the bucket if there is one.                                     *)
(***************************************************************************)
SplitBatches(bucket, batch_size) ==
  LET nb == Len(bucket) \div batch_size
  IN IF nb = 0 THEN <<bucket>>
     ELSE [b \in 1..nb |-> SubSeq(bucket, (b - 1) * batch_size + 1, b * batch_size)]
          \o (IF Len(bucket) % batch_size # 0
              THEN <<SubSeq(bucket, nb * batch_size + 1, Len(bucket))>>
              ELSE <<>>)

(***************************************************************************)
(* bucketerize (lines 314-353) on a non-empty index list.  On an empty     *)
(* list bucket_size is 0 and line 327 divides by it: see BucketerizeRaises. *)
(***************************************************************************)
BucketerizeRaises(sorted_indices) == Len(sorted_indices) = 0

\* lines 330-341: every bucket shuffled and cut into batches
Buckets(sorted_indices, batch_size, bucket_size, seed) ==
  Chain([i \in 1..((Len(sorted_indices) + bucket_size - 1) \div bucket_size) |->
           SplitBatches(
             Shuffle(seed, i - 1, bucket_size,
                     SubSeq(sorted_indices, (i - 1) * bucket_size + 1,
                            Min(Len(sorted_indices), i * bucket_size))),
             batch_size)])

\* line 350 and 352: all batches but the last in the order batch_indices
TakeBatches(batches, batch_indices) ==
  [j \in 1..(Len(batches) - 1) |-> batches[batch_indices[j]]]
    \o <<batches[Len(batches)]>>

\* a faulty bucketerize that shuffles the last batch with the others
ShuffleAllBatches(batches, seed) ==
  [j \in 1..Len(batches) |->
     batches[Shuffle(seed, 0, 0, [k \in 1..Len(batches) |-> k])[j]]]

\* lines 342-352: the batches but the last shuffled by a generator seeded anew
ShuffleBatches(batches, seed) ==
  TakeBatches(batches, Shuffle(seed, 0, 0, [j \in 1..(Len(batches) - 1) |-> j]))

Bucketerize(sorted_indices, batch_size, num_batch_per_bucket, seed) ==
  ShuffleBatches(
    Buckets(sorted_indices, batch_size,
            Min(Len(sorted_indices), batch_size * num_batch_per_bucket), Abs(seed)),
    Abs(seed))

(***************************************************************************)
(* The sampler object.  old_num_replicas is not assigned by __init__; the   *)
(* value Unset stands for the missing attribute.                           *)
(***************************************************************************)
Unset == 0

ClassName == "BucketedBatchSampler"

\* __init__ (lines 142-194) without the fastNLP-internal kwargs
NewSampler(length, batch_size, num_batch_per_bucket, shuffle, drop_last, seed) ==
  [ length |-> length,
    sorted_indices |-> ArgsortDesc(length),
    batch_size |-> batch_size,
    num_batch_per_bucket |-> num_batch_per_bucket,
    shuffle |-> shuffle,
    drop_last |-> drop_last,
    seed |-> seed,
    num_consumed_samples |-> 0,
    num_replicas |-> 1,
    rank |-> 0,
    epoch |-> -1,
    pad |-> FALSE,
    during_iter |-> FALSE,
    old_batch_size |-> batch_size,
    old_num_batch_per_bucket |-> num_batch_per_bucket,
    old_num_replicas |-> Unset ]

\* len(self.dataset)
DatasetLen(s) == Len(s.length)

\* num_left_samples (lines 226-235)
NumLeftSamples(s) ==
  IF s.pad
  THEN CeilDiv(DatasetLen(s) - s.num_consumed_samples, s.num_replicas)
  ELSE FloorDiv(DatasetLen(s) - s.num_consumed_samples, s.num_replicas)

\* total_size (lines 216-224)
TotalSize(s) == s.num_consumed_samples + s.num_replicas * NumLeftSamples(s)

\* __len__ (lines 237-246)
SamplerLen(s) ==
  LET num_sampler_per_rank == TotalSize(s) \div s.num_replicas
  IN IF s.drop_last
     THEN num_sampler_per_rank \div s.batch_size
     ELSE (num_sampler_per_rank + s.batch_size - 1) \div s.batch_size

(***************************************************************************)
(* set_distributed (lines 196-214).  The three fields are assigned before   *)
(* the drop_last assertion is evaluated.                                   *)
(***************************************************************************)
SetDistributedRejects(s, num_replicas, rank) ==
  s.during_iter \/ ~(num_replicas > 0) \/ ~(0 <= rank /\ rank < num_replicas)

SetDistributedAssigned(s, num_replicas, rank, pad) ==
  [s EXCEPT !.num_replicas = num_replicas, !.rank = rank, !.pad = pad]

SetDistributedDropLastFails(s, num_replicas, pad) ==
  LET num_samples ==
        IF pad
        THEN ((DatasetLen(s) + num_replicas - 1) \div num_replicas) * num_replicas
        ELSE DatasetLen(s)
  IN s.drop_last /\ ~(num_replicas * s.batch_size <= num_samples)

SetDistributedRaises(s, num_replicas, rank, pad) ==
  SetDistributedRejects(s, num_replicas, rank)
    \/ SetDistributedDropLastFails(s, num_replicas, pad)

SetDistributed(s, num_replicas, rank, pad) ==
  IF SetDistributedRejects(s, num_replicas, rank) THEN s
  ELSE SetDistributedAssigned(s, num_replicas, rank, pad)

(***************************************************************************)
(* state_dict (lines 355-370) and load_state_dict (lines 372-394).          *)
(***************************************************************************)
StateDictRaises(s) ==
  s.old_batch_size # s.batch_size
    \/ s.old_num_batch_per_bucket # s.num_batch_per_bucket

StateDict(s) ==
  [ seed |-> s.seed,
    epoch |-> s.epoch,
    num_consumed_samples |-> s.num_consumed_samples,
    sampler_type |-> ClassName,
    length |-> DatasetLen(s),
    shuffle |-> s.shuffle,
    batch_size |-> s.batch_size,
    num_batch_per_bucket |-> s.num_batch_per_bucket,
    num_replicas |-> s.num_replicas ]

\* a faulty load_state_dict without the assertion of line 374
LoadStateDictUnguarded(s, states) ==
  states.sampler_type # ClassName \/ states.length # DatasetLen(s)

\* the assertions of lines 374-382
LoadStateDictRaises(s, states) ==
  s.during_iter \/ states.sampler_type # ClassName \/ states.length # DatasetLen(s)

\* a faulty line 394: the loader takes its own num_replicas for the writer's
LoadStateDictOwnReplicas(s, states) ==
  [s EXCEPT !.seed = states.seed,
            !.epoch = states.epoch,
            !.num_consumed_samples =
               IF states.num_consumed_samples >= states.length
               THEN 0 ELSE states.num_consumed_samples,
            !.shuffle = states.shuffle,
            !.old_batch_size = states.batch_size,
            !.old_num_batch_per_bucket = states.num_batch_per_bucket,
            !.old_num_replicas = s.num_replicas]

\* a faulty load_state_dict without lines 386-387: a checkpoint taken after
\* the last sample keeps its counter
LoadStateDictNoReset(s, states) ==
  [s EXCEPT !.seed = states.seed,
            !.epoch = states.epoch,
            !.num_consumed_samples = states.num_consumed_samples,
            !.shuffle = states.shuffle,
            !.old_batch_size = states.batch_size,
            !.old_num_batch_per_bucket = states.num_batch_per_bucket,
            !.old_num_replicas = states.num_replicas]

\* lines 383-394, the assignments of an accepted load
LoadStateDictAssigned(s, states) ==
  [s EXCEPT !.seed = states.seed,
            !.epoch = states.epoch,
            !.num_consumed_samples =
               IF states.num_consumed_samples >= states.length
               THEN 0 ELSE states.num_consumed_samples,
            !.shuffle = states.shuffle,
            !.old_batch_size = states.batch_size,
            !.old_num_batch_per_bucket = states.num_batch_per_bucket,
            !.old_num_replicas = states.num_replicas]

LoadStateDict(s, states) ==
  IF LoadStateDictRaises(s, states) THEN s ELSE LoadStateDictAssigned(s, states)

\* set_epoch (lines 396-397)
SetEpochOf(s, epoch) == [s EXCEPT !.epoch = epoch]

(***************************************************************************)
(* __iter__ up to its first yield (lines 249-301): the batches of the pass, *)
(* or the exception the prelude raises.  `s` is the sampler after lines     *)
(* 249-251 (see IterEnter).                                                *)
(***************************************************************************)
\* lines 256-268: the order of the checkpointed pass, rebuilt with the old_*
\* configuration, minus the consumed samples, sorted again by length
OldShardSlice(s, i) == Strided(s.sorted_indices, i, s.old_num_replicas)

ReconstructRaises(s) ==
  s.old_num_replicas = Unset
    \/ \E i \in 0..(s.old_num_replicas - 1) : BucketerizeRaises(OldShardSlice(s, i))

\* lines 257-262: the batches of every shard of the checkpointed job
OldBatches(s) ==
  [i \in 1..s.old_num_replicas |->
     Bucketerize(OldShardSlice(s, i - 1), s.old_batch_size,
                 s.old_num_batch_per_bucket, s.seed + s.epoch)]

\* line 263: zip(*_batches) stops at the shard with the fewest batches
Zip(_batches) ==
  LET R0 == Len(_batches)
      rounds == CHOOSE m \in {Len(_batches[i]) : i \in 1..R0} :
                  \A i \in 1..R0 : m <= Len(_batches[i])
  IN [k \in 1..(rounds * R0) |-> _batches[((k - 1) % R0) + 1][((k - 1) \div R0) + 1]]

\* lines 267-268
SortAgain(sorted_indices, order) ==
  [k \in 1..Len(sorted_indices) |-> sorted_indices[order[k] + 1]]

SubLength(s, sorted_indices) ==
  [k \in 1..Len(sorted_indices) |-> s.length[sorted_indices[k] + 1]]

Resorted(s, sorted_indices) ==
  SortAgain(sorted_indices, ArgsortDesc(SubLength(s, sorted_indices)))

Reconstruct(s) ==
  Resorted(s, DropFirst(Chain(Zip(OldBatches(s))), s.num_consumed_samples))

\* lines 253-270 and 275-276: the indices of this rank
ShardIndices(s) ==
  IF s.shuffle
  THEN Strided(IF s.num_consumed_samples > 0 THEN Reconstruct(s) ELSE s.sorted_indices,
               s.rank, s.num_replicas)
  ELSE Strided(DropFirst(s.sorted_indices, s.num_consumed_samples),
               s.rank, s.num_replicas)

\* lines 271-283: the batches of these indices
BatchesOf(s, sorted_indices) ==
  IF s.shuffle
  THEN Bucketerize(sorted_indices, s.batch_size, s.num_batch_per_bucket, s.seed + s.epoch)
  ELSE SplitBatches(sorted_indices, s.batch_size)

\* line 285
NeedPadNum(s) == (DatasetLen(s) - s.num_consumed_samples) % s.num_replicas

\* lines 286-296: "pad", "cut" or "keep"
ShardFix(s) ==
  IF s.pad /\ NeedPadNum(s) # 0 /\ NeedPadNum(s) <= s.rank THEN "pad"
  ELSE IF ~s.pad /\ NeedPadNum(s) # 0 /\ NeedPadNum(s) > s.rank THEN "cut"
  ELSE "keep"

\* batches[-1][0] and batches[-1].pop(-1) raise IndexError on an empty batch
FixRaises(s, batches) ==
  \/ /\ ShardFix(s) \in {"pad", "cut"}
     /\ Len(batches) > 0
     /\ Len(batches[Len(batches)]) = 0
  \/ /\ ShardFix(s) = "cut"
     /\ Len(batches) = 0

FixBatches(s, batches) ==
  LET n == Len(batches)
      last == batches[n]
  IN CASE ShardFix(s) = "pad" /\ n > 0 ->
            IF Len(last) < s.batch_size
            THEN [batches EXCEPT ![n] = Append(last, last[1])]
            ELSE Append(batches, <<last[1]>>)
       [] ShardFix(s) = "cut" /\ n > 0 ->
            IF Len(last) = 1
            THEN SubSeq(batches, 1, n - 1)
            ELSE [batches EXCEPT ![n] = SubSeq(last, 1, Len(last) - 1)]
       [] OTHER -> batches

\* lines 300-301
DropLast(s, batches) ==
  IF s.drop_last /\ Len(batches) >= 1 /\ Len(batches[Len(batches)]) < s.batch_size
  THEN SubSeq(batches, 1, Len(batches) - 1)
  ELSE batches

\* lines 298-301, on the batches after padding or truncation
Checked(s, batches) ==
  IF SumLen(batches) # NumLeftSamples(s)
  THEN [err |-> "AssertionError", batches |-> <<>>]
  ELSE [err |-> "none", batches |-> DropLast(s, batches)]

\* lines 285-301, on the batches of the shard
Fixed(s, batches) ==
  IF FixRaises(s, batches)
  THEN [err |-> "IndexError", batches |-> <<>>]
  ELSE Checked(s, FixBatches(s, batches))

\* lines 271-301, on the indices of the shard
Batched(s, sorted_indices) ==
  IF s.shuffle /\ BucketerizeRaises(sorted_indices)
  THEN [err |-> "ZeroDivisionError", batches |-> <<>>]
  ELSE Fixed(s, BatchesOf(s, sorted_indices))

\* lines 253-301: the exception the prelude raises ("none" if it reaches the
\* yield loop) and the list `batches` the loop of lines 303-305 walks over
IterPrelude(s) ==
  IF s.shuffle /\ s.num_consumed_samples > 0 /\ ReconstructRaises(s)
  THEN [err |-> IF s.old_num_replicas = Unset THEN "AttributeError"
                ELSE "ZeroDivisionError",
        batches |-> <<>>]
  ELSE Batched(s, ShardIndices(s))

IterError(s) == IterPrelude(s).err

IterBatches(s) == IterPrelude(s).batches

\* a faulty __iter__ without line 250: a pass entered while during_iter is
\* still true goes on from the counter the abandoned pass left
IterEnterKeepsCounter(s) == [s EXCEPT !.during_iter = TRUE]

\* lines 249-251
IterEnter(s) ==
  [s EXCEPT !.num_consumed_samples = IF s.during_iter THEN 0 ELSE @,
            !.during_iter = TRUE]

\* a faulty line 304: the counter advances by the shard's own samples only
IterCountOwnShard(s, batch) ==
  [s EXCEPT !.num_consumed_samples = @ + Len(batch)]

\* line 304, for the batch about to be yielded
IterCount(s, batch) ==
  [s EXCEPT !.num_consumed_samples = @ + s.num_replicas * Len(batch)]

\* faulty lines 306-312: old_batch_size and old_num_batch_per_bucket are kept
IterFinishKeepsOld(s) ==
  [s EXCEPT !.during_iter = FALSE,
            !.num_consumed_samples = 0,
            !.old_num_replicas = s.num_replicas,
            !.epoch = IF s.epoch < 0 THEN s.epoch - 1 ELSE s.epoch]

\* a faulty completion without lines 311-312: epoch is never decreased
IterFinishKeepsEpoch(s) ==
  [s EXCEPT !.during_iter = FALSE,
            !.num_consumed_samples = 0,
            !.old_batch_size = s.batch_size,
            !.old_num_batch_per_bucket = s.num_batch_per_bucket,
            !.old_num_replicas = s.num_replicas]

\* faulty lines 311-312: epoch is decreased whatever its sign
IterFinishAnyEpoch(s) ==
  [s EXCEPT !.during_iter = FALSE,
            !.num_consumed_samples = 0,
            !.old_batch_size = s.batch_size,
            !.old_num_batch_per_bucket = s.num_batch_per_bucket,
            !.old_num_replicas = s.num_replicas,
            !.epoch = s.epoch - 1]

\* lines 306-312
IterFinish(s) ==
  [s EXCEPT !.during_iter = FALSE,
            !.num_consumed_samples = 0,
            !.old_batch_size = s.batch_size,
            !.old_num_batch_per_bucket = s.num_batch_per_bucket,
            !.old_num_replicas = s.num_replicas,
            !.epoch = IF s.epoch < 0 THEN s.epoch - 1 ELSE s.epoch]

(***************************************************************************)
(* The generator object a call of __iter__ returns.  Its body runs only     *)
(* when next() is called: up to the first yield on the first call, from     *)
(* one yield to the next (or to the end of the function) afterwards.        *)
(***************************************************************************)
NoGenerator == [st |-> "none", batches |-> <<>>, i |-> 0]

\* first next(): lines 249-305 up to the first yield, or 249-312 when the
\* pass has no batch, or the exception of the prelude
FirstYield(s1, p) ==
  IF p.err # "none"
  THEN [s |-> s1, g |-> [st |-> p.err, batches |-> <<>>, i |-> 0], out |-> <<>>]
  ELSE IF p.batches = <<>>
  THEN [s |-> IterFinish(s1), g |-> [st |-> "finished", batches |-> <<>>, i |-> 0],
        out |-> <<>>]
  ELSE [s |-> IterCount(s1, p.batches[1]),
        g |-> [st |-> "suspended", batches |-> p.batches, i |-> 1],
        out |-> <<p.batches[1]>>]

FirstNext(s) == FirstYield(IterEnter(s), IterPrelude(IterEnter(s)))

\* a later next(): the loop of lines 303-305 goes on, or lines 306-312 run
LaterNext(s, g) ==
  IF g.i < Len(g.batches)
  THEN [s |-> IterCount(s, g.batches[g.i + 1]),
        g |-> [g EXCEPT !.i = g.i + 1],
        out |-> <<g.batches[g.i + 1]>>]
  ELSE [s |-> IterFinish(s), g |-> [g EXCEPT !.st = "finished"], out |-> <<>>]

\* `for batch in sampler:` asking for its next batch
NextBatch(s, g) ==
  IF g.st = "suspended" THEN LaterNext(s, g) ELSE FirstNext(s)

Running(g) == g.st = "suspended"

Crashed(g) == g.st \in {"ZeroDivisionError", "IndexError", "AssertionError", "AttributeError"}

(***************************************************************************)
(* Inputs of the model.                                                    *)
(***************************************************************************)
\* the dataset of the worked example of the specification (10 samples)
ExampleLength == <<5, 1, 8, 2, 9, 3, 7, 4, 6, 0>>

\* datasets of 1..MaxN samples: all lengths equal, or lengths 1, 2, 0, 1, 2, ...
Datasets == {[i \in 1..n |-> (i * m) % 3] : n \in 1..MaxN, m \in {0, 1}}

BatchSizes == 1..MaxBatch

BucketCounts == {1, 2}

Seeds == {0, 1}

(***************************************************************************)
(* State.                                                                  *)
(*   smp     the sampler object of each process of the running job          *)
(*           (process r + 1 holds rank r when the job is distributed)       *)
(*   gen     the generator each process iterates                            *)
(*   ckpt    the checkpoint on disk: the dictionary state_dict returned     *)
(*   call    the last call made on a sampler and the exception it raised    *)
(* and, recorded for the properties only:                                  *)
(*   out     the batches each process has been handed in the current pass   *)
(*   seen    the indices handed out in this epoch before the checkpoint     *)
(*           the running job was resumed from                               *)
(*   saved   what the job that wrote ckpt had still to yield, its samplers  *)
(*           and the indices handed out up to then                          *)
(*   from    the value of saved the running job was resumed from            *)
(*   chain   whether every job of this epoch so far was started with the    *)
(*           configuration of the job before it (same), and from a          *)
(*           checkpoint that left samples to consume (mid)                  *)
(*   begun   for each process, __len__() read before its pass began,       *)
(*           num_consumed_samples the pass began with, and during_iter      *)
(*           and epoch as the pass found them                               *)
(*   stale   whether the sampler loaded a checkpoint written with another   *)
(*           batch_size or num_batch_per_bucket ("stale"), and whether a    *)
(*           pass has completed since ("cleared"); "no" otherwise           *)
(*   passes, restarts   counters that bound the run                         *)
(***************************************************************************)
VARIABLES smp, gen, ckpt, call, out, seen, saved, from, chain, begun, stale,
          passes, restarts

vars == <<smp, gen, ckpt, call, out, seen, saved, from, chain, begun, stale,
          passes, restarts>>

NoCkpt == [has |-> FALSE]

NoSave == [has |-> FALSE]

Procs == 1..Len(smp)

\* the dataset all samplers of the job were built on
length == smp[1].length

N == Len(length)

\* a job of num_replicas processes: each constructs its sampler and, when the
\* job is distributed, calls set_distributed with its rank
JobSampler(len, batch_size, num_batch_per_bucket, shuffle, drop_last, seed, num_replicas, rank, pad) ==
  IF num_replicas = 1
  THEN NewSampler(len, batch_size, num_batch_per_bucket, shuffle, drop_last, seed)
  ELSE SetDistributed(
         NewSampler(len, batch_size, num_batch_per_bucket, shuffle, drop_last, seed),
         num_replicas, rank, pad)

JobStarts(len, batch_size, drop_last, num_replicas, pad) ==
  num_replicas = 1
    \/ ~SetDistributedRaises(NewSampler(len, batch_size, 1, FALSE, drop_last, 0),
                             num_replicas, 0, pad)

\* the configuration a job is started with
SameConfig(a, b) ==
  /\ a.batch_size = b.batch_size
  /\ a.num_batch_per_bucket = b.num_batch_per_bucket
  /\ a.drop_last = b.drop_last
  /\ a.num_replicas = b.num_replicas
  /\ a.rank = b.rank
  /\ a.pad = b.pad
  /\ a.length = b.length

\* what is recorded of a sampler when its pass begins
Begin(s) ==
  [len |-> SamplerLen(s), consumed |-> IterEnter(s).num_consumed_samples,
   during |-> s.during_iter, epoch |-> s.epoch]

\* every index handed out so far in the current pass, process by process
RECURSIVE ChainAll(_)
ChainAll(outs) ==
  IF outs = <<>> THEN <<>> ELSE Chain(Head(outs)) \o ChainAll(Tail(outs))

(***************************************************************************)
(* SpecShards: all processes of a job run their passes in lock-step, a     *)
(* checkpoint is written between two batches, and a new job (possibly of    *)
(* another size) is started from it.                                       *)
(***************************************************************************)
InitShards ==
  /\ \E len \in Datasets, batch_size \in BatchSizes, nbpb \in BucketCounts,
        shuffle \in BOOLEAN, drop_last \in BOOLEAN, seed \in Seeds,
        num_replicas \in 1..MaxReplicas, pad \in BOOLEAN :
       /\ num_replicas = 1 => ~pad
       /\ JobStarts(len, batch_size, drop_last, num_replicas, pad)
       /\ smp = [r \in 1..num_replicas |->
                   JobSampler(len, batch_size, nbpb, shuffle, drop_last, seed,
                              num_replicas, r - 1, pad)]
  /\ gen = [r \in Procs |-> NoGenerator]
  /\ ckpt = NoCkpt
  /\ call = [op |-> "init", raised |-> FALSE]
  /\ out = [r \in Procs |-> <<>>]
  /\ seen = <<>>
  /\ saved = NoSave
  /\ from = NoSave
  /\ chain = [same |-> TRUE, mid |-> TRUE]
  /\ begun = [r \in Procs |-> Begin(smp[r])]
  /\ stale = "no"
  /\ passes = 0
  /\ restarts = 0

CanStep(g) == g.st \in {"none", "suspended"}

\* every process whose loop is still running asks for its next batch
Stepped(nx) ==
  /\ smp' = [r \in Procs |-> IF CanStep(gen[r]) THEN nx[r].s ELSE smp[r]]
  /\ gen' = [r \in Procs |-> IF CanStep(gen[r]) THEN nx[r].g ELSE gen[r]]
  /\ out' = [r \in Procs |-> IF CanStep(gen[r]) THEN out[r] \o nx[r].out ELSE out[r]]

StepAll ==
  /\ \E r \in Procs : CanStep(gen[r])
  /\ Stepped([r \in Procs |-> NextBatch(smp[r], gen[r])])
  /\ call' = [op |-> "next", raised |-> \E r \in Procs : Crashed(gen'[r])]
  /\ begun' = [r \in Procs |-> IF gen[r].st = "none" THEN Begin(smp[r]) ELSE begun[r]]
  /\ passes' = IF gen[1].st = "none" THEN passes + 1 ELSE passes
  /\ UNCHANGED <<ckpt, seen, saved, from, chain, stale, restarts>>

\* between two batches the job writes the state_dict of its first process
SaveAll ==
  /\ Running(gen[1])
  /\ call' = [op |-> "state_dict", raised |-> StateDictRaises(smp[1])]
  /\ IF StateDictRaises(smp[1])
     THEN UNCHANGED <<ckpt, saved>>
     ELSE /\ ckpt' = [has |-> TRUE, states |-> StateDict(smp[1])]
          /\ saved' = [has |-> TRUE,
                       rest |-> [r \in Procs |-> DropFirst(gen[r].batches, gen[r].i)],
                       smp |-> smp,
                       states |-> StateDict(smp[1]),
                       seen |-> seen \o ChainAll(out)]
  /\ UNCHANGED <<smp, gen, out, seen, from, chain, begun, stale, passes, restarts>>

\* a new job: every process constructs a sampler, distributes it and loads
\* the checkpoint
RestartAll ==
  /\ ckpt.has
  /\ restarts < MaxRestarts
  /\ \E batch_size \in BatchSizes, nbpb \in BucketCounts,
        num_replicas \in 1..MaxReplicas, pad \in {saved.smp[1].pad} :
       /\ JobStarts(length, batch_size, smp[1].drop_last, num_replicas, pad)
       /\ smp' = [r \in 1..num_replicas |->
                    LoadStateDict(
                      JobSampler(length, batch_size, nbpb, ckpt.states.shuffle,
                                 smp[1].drop_last, ckpt.states.seed,
                                 num_replicas, r - 1, pad),
                      ckpt.states)]
       /\ gen' = [r \in 1..num_replicas |-> NoGenerator]
       /\ out' = [r \in 1..num_replicas |-> <<>>]
       /\ begun' = [r \in 1..num_replicas |-> Begin(smp'[r])]
       /\ chain' = [same |-> /\ chain.same
                             /\ num_replicas = Len(saved.smp)
                             /\ \A r \in 1..num_replicas : SameConfig(smp'[r], saved.smp[r]),
                    mid |-> chain.mid /\ smp'[1].num_consumed_samples > 0]
  /\ call' = [op |-> "load_state_dict", raised |-> FALSE]
  /\ seen' = saved.seen
  /\ from' = saved
  /\ restarts' = restarts + 1
  /\ passes' = 0
  /\ UNCHANGED <<ckpt, saved, stale>>

NextShards == StepAll \/ SaveAll \/ RestartAll

SpecShards == InitShards /\ [][NextShards]_vars

(***************************************************************************)
(* Spec: one sampler object and the calls a training loop makes on it, in   *)
(* any order: next() on the generator of the running pass, leaving the      *)
(* loop, set_distributed, state_dict, load_state_dict, set_epoch, and the   *)
(* construction of a new sampler over the same dataset.                     *)
(***************************************************************************)
\* the sampler of the worked example
ExampleSampler == NewSampler(ExampleLength, 3, 10, FALSE, FALSE, 0)

IsExample(s) ==
  /\ s.length = ExampleLength
  /\ s.batch_size = 3
  /\ s.num_batch_per_bucket = 10
  /\ ~s.shuffle
  /\ ~s.drop_last
  /\ s.num_replicas = 1

\* the datasets of MaxN - 2 samples
ProtocolDatasets == {d \in Datasets : Len(d) = MaxN - 2}

Epochs == {1}

\* a checkpoint written by another sampler class, or over another dataset
OtherClassName == "ReproducibleBatchSampler"

Loadable(states) ==
  {states, [states EXCEPT !.sampler_type = OtherClassName],
   [states EXCEPT !.length = @ + 1]}

\* arguments that pass the assertions of set_distributed on their own
SetDistributedArgsValid(s, num_replicas, rank, pad) ==
  /\ num_replicas > 0
  /\ 0 <= rank /\ rank < num_replicas
  /\ s.drop_last =>
       num_replicas * s.batch_size <=
         (IF pad THEN CeilDiv(DatasetLen(s), num_replicas) * num_replicas
          ELSE DatasetLen(s))

LoadStateDictArgsValid(s, states) ==
  states.sampler_type = ClassName /\ states.length = DatasetLen(s)

Called(op, raised, s, valid, s1) ==
  [op |-> op, raised |-> raised, during |-> s.during_iter, valid |-> valid,
   same |-> s1 = s, stale |-> stale, before |-> s]

InitWith(s) ==
  /\ smp = <<s>>
  /\ gen = <<NoGenerator>>
  /\ ckpt = NoCkpt
  /\ stale = "no"
  /\ call = Called("init", FALSE, s, TRUE, s)
  /\ out = <<<<>>>>
  /\ seen = <<>>
  /\ saved = NoSave
  /\ from = NoSave
  /\ chain = [same |-> TRUE, mid |-> TRUE]
  /\ begun = <<Begin(s)>>
  /\ passes = 0
  /\ restarts = 0

Init ==
  \E len \in ProtocolDatasets, batch_size \in BatchSizes, nbpb \in BucketCounts,
     shuffle \in BOOLEAN, drop_last \in BOOLEAN :
    InitWith(NewSampler(len, batch_size, nbpb, shuffle, drop_last, 0))

InitExample == InitWith(ExampleSampler)

\* next() on the generator of `for batch in sampler`
Iterated(nx) ==
  /\ smp' = <<nx.s>>
  /\ gen' = <<nx.g>>
  /\ out' = <<out[1] \o nx.out>>
  /\ call' = Called("next", Crashed(nx.g), smp[1], TRUE, nx.s)
  /\ stale' = IF nx.g.st = "finished" /\ stale = "stale" THEN "cleared" ELSE stale

Iterate ==
  /\ CanStep(gen[1])
  /\ gen[1].st = "none" => passes < MaxPasses
  /\ Iterated(NextBatch(smp[1], gen[1]))
  /\ begun' = IF gen[1].st = "none" THEN <<Begin(smp[1])>> ELSE begun
  /\ passes' = IF gen[1].st = "none" THEN passes + 1 ELSE passes
  /\ UNCHANGED <<ckpt, seen, saved, from, chain, restarts>>

\* the loop is left (break, or the end of the pass, or its exception) and
\* the generator is dropped; the code after a pending yield never runs
Leave ==
  /\ gen[1].st # "none"
  /\ gen' = <<NoGenerator>>
  /\ out' = <<<<>>>>
  /\ call' = Called("break", FALSE, smp[1], TRUE, smp[1])
  /\ UNCHANGED <<smp, ckpt, seen, saved, from, chain, begun, stale, passes, restarts>>

SetDistributedCall ==
  /\ \E num_replicas \in 0..MaxReplicas, rank \in 0..MaxReplicas, pad \in BOOLEAN :
       /\ smp' = <<SetDistributed(smp[1], num_replicas, rank, pad)>>
       /\ call' = Called("set_distributed",
                         SetDistributedRaises(smp[1], num_replicas, rank, pad),
                         smp[1],
                         SetDistributedArgsValid(smp[1], num_replicas, rank, pad),
                         smp'[1])
  /\ UNCHANGED <<gen, ckpt, out, seen, saved, from, chain, begun, stale, passes, restarts>>

StateDictCall ==
  /\ call' = Called("state_dict", StateDictRaises(smp[1]), smp[1], TRUE, smp[1])
  /\ ckpt' = IF StateDictRaises(smp[1]) THEN ckpt
             ELSE [has |-> TRUE, states |-> StateDict(smp[1])]
  /\ stale' = IF ~StateDictRaises(smp[1]) /\ stale = "cleared" THEN "no" ELSE stale
  /\ UNCHANGED <<smp, gen, out, seen, saved, from, chain, begun, passes, restarts>>

LoadStateDictCall ==
  /\ ckpt.has
  /\ \E states \in Loadable(ckpt.states) :
       /\ smp' = <<LoadStateDict(smp[1], states)>>
       /\ call' = Called("load_state_dict", LoadStateDictRaises(smp[1], states), smp[1],
                         LoadStateDictArgsValid(smp[1], states), smp'[1])
       /\ stale' = IF LoadStateDictRaises(smp[1], states) THEN stale
                   ELSE IF states.batch_size # smp[1].batch_size
                           \/ states.num_batch_per_bucket # smp[1].num_batch_per_bucket
                   THEN "stale"
                   ELSE "no"
  /\ UNCHANGED <<gen, ckpt, out, seen, saved, from, chain, begun, passes, restarts>>

SetEpochCall ==
  /\ \E epoch \in Epochs :
       /\ smp' = <<SetEpochOf(smp[1], epoch)>>
       /\ call' = Called("set_epoch", FALSE, smp[1], TRUE, smp'[1])
  /\ UNCHANGED <<gen, ckpt, out, seen, saved, from, chain, begun, stale, passes, restarts>>

\* the training script starts again, with another batch size, number of
\* processes or shuffle flag: the new sampler of rank 0 over the same dataset;
\* the generator of the old one is gone
Construct ==
  /\ restarts < MaxRestarts
  /\ \E batch_size \in BatchSizes, nbpb \in BucketCounts, num_replicas \in 1..MaxReplicas,
        shuffle \in BOOLEAN :
       /\ JobStarts(length, batch_size, smp[1].drop_last, num_replicas, FALSE)
       /\ smp' = <<JobSampler(length, batch_size, nbpb, shuffle, smp[1].drop_last,
                              smp[1].seed, num_replicas, 0, FALSE)>>
  /\ gen' = <<NoGenerator>>
  /\ out' = <<<<>>>>
  /\ stale' = "no"
  /\ call' = [op |-> "init", raised |-> FALSE, during |-> FALSE, valid |-> TRUE,
              same |-> FALSE, stale |-> "no", before |-> smp'[1]]
  /\ begun' = <<Begin(smp'[1])>>
  /\ restarts' = restarts + 1
  /\ UNCHANGED <<ckpt, seen, saved, from, chain, passes>>

\* the calls of one training run on one sampler object
Next ==
  \/ Iterate
  \/ Leave
  \/ SetDistributedCall
  \/ StateDictCall
  \/ LoadStateDictCall

Spec == Init /\ [][Next]_vars

\* training runs restarted with other batch sizes and process counts
NextStale ==
  \/ Iterate
  \/ Leave
  \/ StateDictCall
  \/ LoadStateDictCall
  \/ Construct

SpecStale == Init /\ [][NextStale]_vars

\* the worked example: one process, never reconfigured
NextExample ==
  \/ Iterate
  \/ Leave
  \/ StateDictCall
  \/ LoadStateDictCall
  \/ SetEpochCall

SpecExample == InitExample /\ [][NextExample]_vars

(***************************************************************************)
(* ReproducibleBatchSampler (lines 45-138): the wrapper that stores the     *)
(* indices of a wrapped batch sampler in index_list and hands them out in   *)
(* slices of batch_size, with the cursor data_idx.                          *)
(***************************************************************************)
ReplayClassName == "ReproducibleBatchSampler"

\* isinstance(idx, list) of line 69: what the wrapped sampler yields is a
\* list of numbers or a number; the printed form of a list begins with "<"
IsList(idx) == Head(ToString(idx)) = "<"

RECURSIVE IterateSamplerList(_)
\* lines 67-73: a yielded list is extended into _index_lst, anything else
\* is appended to it
IterateSamplerList(batch_sampler) ==
  IF batch_sampler = <<>> THEN <<>>
  ELSE (IF IsList(Head(batch_sampler)) THEN Head(batch_sampler)
        ELSE <<Head(batch_sampler)>>)
       \o IterateSamplerList(Tail(batch_sampler))

\* lines 75-81: array("I", _index_lst) raises for an item that is not an
\* integer of 0 .. 4294967295 (TypeError, OverflowError); the lists of the
\* model are shorter than 4294967295 and its integers smaller
IterateSamplerRaises(batch_sampler) ==
  LET _index_lst == IterateSamplerList(batch_sampler)
  IN \E k \in 1..Len(_index_lst) : IsList(_index_lst[k]) \/ _index_lst[k] < 0

\* _iterate_sampler (lines 66-82), when it does not raise: the array holds
\* the items of _index_lst in their order
IterateSampler(batch_sampler) == IterateSamplerList(batch_sampler)

\* __init__ (lines 47-64) without the fastNLP-internal kwargs
NewReplaySampler(batch_sampler, batch_size, drop_last) ==
  [ batch_size |-> batch_size,
    drop_last |-> drop_last,
    data_idx |-> 0,
    index_list |-> IterateSampler(batch_sampler),
    need_reinitialize |-> FALSE ]

\* lines 85-89; batch_sampler is what the wrapped sampler yields if it is
\* iterated now
ReplayEnter(s, batch_sampler) ==
  IF s.need_reinitialize
  THEN [s EXCEPT !.index_list = IterateSampler(batch_sampler), !.data_idx = 0]
  ELSE [s EXCEPT !.need_reinitialize = TRUE]

\* a faulty __iter__ that walks over the whole index_list whatever data_idx
ReplayWholeList(s) == s.index_list

\* lines 92-95: the local index_list the loop walks over
ReplayLocal(s) ==
  IF s.data_idx # 0 THEN DropFirst(s.index_list, s.data_idx) ELSE s.index_list

ReplayNoGenerator == [st |-> "none", index_list |-> <<>>, i |-> 0]

(***************************************************************************)
(* The loop of lines 96-103 from position g.i of the local list up to the   *)
(* next yield or the end of the function; data_idx advances with every      *)
(* index appended to the batch, also with those of a dropped last batch.    *)
(***************************************************************************)
ReplayAdvance(s, g, taken, yields) ==
  [s |-> [s EXCEPT !.data_idx = @ + taken],
   g |-> [g EXCEPT !.i = @ + taken,
                   !.st = IF yields THEN "suspended" ELSE "finished"],
   out |-> IF yields THEN <<SubSeq(g.index_list, g.i + 1, g.i + taken)>> ELSE <<>>]

ReplayLoop(s, g) ==
  IF Len(g.index_list) - g.i >= s.batch_size
  THEN ReplayAdvance(s, g, s.batch_size, TRUE)
  ELSE ReplayAdvance(s, g, Len(g.index_list) - g.i,
                     Len(g.index_list) - g.i > 0 /\ ~s.drop_last)

\* first next() of a generator: lines 85-95, then the loop
ReplayFirstNext(s1) ==
  ReplayLoop(s1, [st |-> "suspended", index_list |-> ReplayLocal(s1), i |-> 0])

\* next() on the generator of `for batch in sampler`
ReplayNextBatch(s, g, batch_sampler) ==
  IF g.st = "suspended" THEN ReplayLoop(s, g)
  ELSE ReplayFirstNext(ReplayEnter(s, batch_sampler))

\* __len__ (lines 105-109)
ReplayLen(s) ==
  IF s.drop_last THEN Len(s.index_list) \div s.batch_size
  ELSE (Len(s.index_list) + s.batch_size - 1) \div s.batch_size

\* state_dict (lines 111-112)
ReplayStateDict(s) ==
  [index_list |-> s.index_list, data_idx |-> s.data_idx, sampler_type |-> ReplayClassName]

\* load_state_dict (lines 114-123)
ReplayLoadRaises(s, states) ==
  states.sampler_type # ReplayClassName \/ Len(states.index_list) # Len(s.index_list)

ReplayLoadStateDict(s, states) ==
  IF ReplayLoadRaises(s, states) THEN s
  ELSE [s EXCEPT !.index_list = states.index_list,
                 !.data_idx = states.data_idx,
                 !.need_reinitialize = FALSE]

(***************************************************************************)
(* SpecReplay: one ReproducibleBatchSampler over a wrapped batch sampler    *)
(* that yields the indices 0 .. n-1 in a new order every time it is         *)
(* iterated; a checkpoint is written after a batch, and a new instance      *)
(* over the same wrapped sampler loads it.  begun records, for the pass     *)
(* that runs, whether index_list was drawn anew, the list, and the cursor   *)
(* the pass started from.                                                  *)
(***************************************************************************)
ReplaySizes == {MaxN - 2, MaxN - 1}

\* the wrapped samplers: each yields a rotation of 0 .. n-1, in batches of
\* two (a batch sampler), one by one (a sampler), or the first index alone
\* and the others in batches of two
WrappedSampler(n) ==
  [order : {[i \in 1..n |-> (i + k) % n] : k \in 0..(n - 1)},
   yields : {"lists", "numbers", "both"}]

\* what a wrapped sampler yields when it is iterated (line 68)
Yielded(wrapped) ==
  CASE wrapped.yields = "lists" -> SplitBatches(wrapped.order, 2)
    [] wrapped.yields = "numbers" -> wrapped.order
    [] wrapped.yields = "both" ->
         <<Head(wrapped.order)>> \o SplitBatches(Tail(wrapped.order), 2)

\* a wrapped sampler that yields a negative index
FaultySampler(n) == <<<<0, 0 - 1>>>> \o SplitBatches([i \in 1..(n - 2) |-> i + 1], 2)

\* the batches the generator g of sampler s has still to yield
ReplayRest(s, g) ==
  LET left == Len(g.index_list) - g.i
      full == left \div s.batch_size
  IN [k \in 1..(IF s.drop_last \/ left % s.batch_size = 0 THEN full ELSE full + 1) |->
        SubSeq(g.index_list, g.i + (k - 1) * s.batch_size + 1,
               Min(Len(g.index_list), g.i + k * s.batch_size))]

InitReplay ==
  /\ \E n \in ReplaySizes, batch_size \in BatchSizes, drop_last \in BOOLEAN :
       \E wrapped \in WrappedSampler(n) :
         smp = <<NewReplaySampler(Yielded(wrapped), batch_size, drop_last)>>
  /\ gen = <<ReplayNoGenerator>>
  /\ ckpt = NoCkpt
  /\ call = [op |-> "init", raised |-> FALSE]
  /\ out = <<<<>>>>
  /\ seen = <<>>
  /\ saved = NoSave
  /\ from = NoSave
  /\ chain = [same |-> TRUE, mid |-> TRUE]
  /\ begun = <<[fresh |-> FALSE, index_list |-> <<>>, data_idx |-> 0]>>
  /\ stale = "no"
  /\ passes = 0
  /\ restarts = 0

ReplayStepped(s1, nx) ==
  /\ smp' = <<nx.s>>
  /\ gen' = <<nx.g>>
  /\ out' = <<out[1] \o nx.out>>
  /\ begun' = IF gen[1].st = "none"
              THEN <<[fresh |-> smp[1].need_reinitialize,
                      index_list |-> s1.index_list,
                      data_idx |-> s1.data_idx]>>
              ELSE begun

ReplayIterate ==
  /\ CanStep(gen[1])
  /\ gen[1].st = "none" => passes < MaxPasses
  /\ \E wrapped \in WrappedSampler(Len(smp[1].index_list)) :
       /\ ReplayStepped(ReplayEnter(smp[1], Yielded(wrapped)),
                        ReplayNextBatch(smp[1], gen[1], Yielded(wrapped)))
       /\ seen' = IF gen[1].st = "none" THEN IterateSampler(Yielded(wrapped)) ELSE seen
  /\ call' = [op |-> "next", raised |-> FALSE]
  /\ passes' = IF gen[1].st = "none" THEN passes + 1 ELSE passes
  /\ UNCHANGED <<ckpt, saved, from, chain, stale, restarts>>

\* the loop is left and the generator dropped
ReplayLeave ==
  /\ gen[1].st # "none"
  /\ gen' = <<ReplayNoGenerator>>
  /\ out' = <<<<>>>>
  /\ call' = [op |-> "break", raised |-> FALSE]
  /\ UNCHANGED <<smp, ckpt, seen, saved, from, chain, begun, stale, passes, restarts>>

\* state_dict after a batch of the running pass has been yielded
ReplaySave ==
  /\ gen[1].st # "none"
  /\ out[1] # <<>>
  /\ ckpt' = [has |-> TRUE, states |-> ReplayStateDict(smp[1])]
  /\ saved' = [has |-> TRUE,
               rest |-> IF gen[1].st = "finished" THEN <<>>
                        ELSE ReplayRest(smp[1], gen[1]),
               smp |-> smp,
               states |-> ReplayStateDict(smp[1])]
  /\ call' = [op |-> "state_dict", raised |-> FALSE]
  /\ UNCHANGED <<smp, gen, out, seen, from, chain, begun, stale, passes, restarts>>

\* the construction of a new instance over a wrapped sampler fails in
\* _iterate_sampler (line 63)
ReplayConstructFails ==
  /\ ckpt.has
  /\ restarts < MaxRestarts
  /\ IterateSamplerRaises(FaultySampler(Len(smp[1].index_list)))
  /\ call' = [op |-> "init", raised |-> TRUE]
  /\ UNCHANGED <<smp, gen, ckpt, out, seen, saved, from, chain, begun, stale,
                 passes, restarts>>

\* a new instance over the wrapped sampler loads the checkpoint, or one
\* written by a sampler of another class
ReplayRestart ==
  /\ ckpt.has
  /\ restarts < MaxRestarts
  /\ \E wrapped \in WrappedSampler(Len(smp[1].index_list)),
        batch_size \in BatchSizes, drop_last \in BOOLEAN,
        states \in {ckpt.states, [ckpt.states EXCEPT !.sampler_type = ClassName]} :
       /\ smp' = <<ReplayLoadStateDict(
                     NewReplaySampler(Yielded(wrapped), batch_size, drop_last), states)>>
       /\ call' = [op |-> "load_state_dict",
                   raised |-> ReplayLoadRaises(
                     NewReplaySampler(Yielded(wrapped), batch_size, drop_last), states)]
       /\ from' = IF call'.raised THEN NoSave ELSE saved
  /\ gen' = <<ReplayNoGenerator>>
  /\ out' = <<<<>>>>
  /\ begun' = <<[fresh |-> FALSE, index_list |-> <<>>, data_idx |-> 0]>>
  /\ seen' = <<>>
  /\ passes' = 0
  /\ restarts' = restarts + 1
  /\ UNCHANGED <<ckpt, saved, chain, stale>>

NextReplay ==
  ReplayIterate \/ ReplayLeave \/ ReplaySave \/ ReplayRestart \/ ReplayConstructFails

SpecReplay == InitReplay /\ [][NextReplay]_vars

(***************************************************************************)
(* SpecReentry: a sampler of any rank that has run some passes to their     *)
(* end, or has loaded the checkpoint a job wrote after the first batch of   *)
(* a later pass; its passes are run, left early and started again.          *)
(* SpecEpochs adds calls of set_epoch.                                      *)
(***************************************************************************)
SeedRange == (0 - MaxPasses)..MaxPasses

ReentryDatasets == {d \in Datasets : Len(d) \in {MaxN - 2, MaxN - 1}}

\* state_dict of the writer after the first next() of its pass
SavedAfterFirst(nx) ==
  IF nx.out = <<>> THEN NoCkpt ELSE [has |-> TRUE, states |-> StateDict(nx.s)]

\* the sampler s after load_state_dict of the checkpoint on disk
InitLoaded(s, saved_by_writer) ==
  /\ saved_by_writer.has
  /\ smp = <<LoadStateDict(s, saved_by_writer.states)>>
  /\ gen = <<NoGenerator>>
  /\ ckpt = saved_by_writer
  /\ stale = "no"
  /\ call = Called("load_state_dict", FALSE, s, TRUE, smp[1])
  /\ out = <<<<>>>>
  /\ seen = <<>>
  /\ saved = NoSave
  /\ from = NoSave
  /\ chain = [same |-> TRUE, mid |-> TRUE]
  /\ begun = <<Begin(smp[1])>>
  /\ passes = 0
  /\ restarts = 0

\* the sampler s after j passes that ran to their end (lines 306-312)
RECURSIVE AfterPasses(_, _)
AfterPasses(s, j) == IF j = 0 THEN s ELSE AfterPasses(IterFinish(s), j - 1)

InitResumed ==
  \E len \in ReentryDatasets, batch_size \in BatchSizes, nbpb \in BucketCounts,
     shuffle \in BOOLEAN, drop_last \in BOOLEAN, seed \in SeedRange,
     num_replicas \in 1..MaxReplicas, rank \in 0..(MaxReplicas - 1), pad \in BOOLEAN,
     done \in 0..MaxPasses :
    /\ rank < num_replicas
    /\ num_replicas = 1 => ~pad
    /\ JobStarts(len, batch_size, drop_last, num_replicas, pad)
    /\ \/ InitWith(AfterPasses(JobSampler(len, batch_size, nbpb, shuffle, drop_last,
                                          seed, num_replicas, rank, pad), done))
       \/ \E old_batch_size \in BatchSizes, old_num_replicas \in 1..MaxReplicas :
            /\ JobStarts(len, old_batch_size, drop_last, old_num_replicas, pad)
            /\ InitLoaded(JobSampler(len, batch_size, nbpb, shuffle, drop_last, seed,
                                     num_replicas, rank, pad),
                          SavedAfterFirst(FirstNext(AfterPasses(
                            JobSampler(len, old_batch_size, nbpb, shuffle, drop_last,
                                       seed, old_num_replicas, 0, pad), done))))

NextReentry == Iterate \/ Leave

SpecReentry == InitResumed /\ [][NextReentry]_vars

NextEpochs == Iterate \/ Leave \/ SetEpochCall

SpecEpochs == InitResumed /\ [][NextEpochs]_vars

(***************************************************************************)
(* SpecFunctions: the sort of __init__ and bucketerize on their own.  The   *)
(* `length` argument is drawn in the initial state (kept in seen), the      *)
(* sampler is constructed from it, and bucketerize is called on a shard     *)
(* of the rest of its sorted_indices as __iter__ does; call records the     *)
(* arguments and out[1] the batches returned.                               *)
(***************************************************************************)
\* every list of 1..MaxN sample lengths from 0..2
LengthLists == UNION {[1..n -> 0..2] : n \in 1..MaxN}

\* the seeds bucketerize is called with (it takes their absolute value)
BucketSeeds == (0 - MaxPasses)..(MaxN + MaxPasses)

InitFunctions ==
  /\ seen \in LengthLists
  /\ smp = <<>>
  /\ gen = <<>>
  /\ ckpt = NoCkpt
  /\ call = [op |-> "none"]
  /\ out = <<>>
  /\ saved = NoSave
  /\ from = NoSave
  /\ chain = [same |-> TRUE, mid |-> TRUE]
  /\ begun = <<>>
  /\ stale = "no"
  /\ passes = 0
  /\ restarts = 0

NewSamplerCall ==
  /\ smp = <<>>
  /\ \E batch_size \in BatchSizes, nbpb \in BucketCounts :
       smp' = <<NewSampler(seen, batch_size, nbpb, TRUE, FALSE, 0)>>
  /\ call' = [op |-> "__init__"]
  /\ UNCHANGED <<gen, ckpt, out, seen, saved, from, chain, begun, stale, passes, restarts>>

Bucketerized(sorted_indices, seed) ==
  /\ sorted_indices # <<>>
  /\ out' = <<Bucketerize(sorted_indices, smp[1].batch_size,
                          smp[1].num_batch_per_bucket, seed)>>
  /\ call' = [op |-> "bucketerize", sorted_indices |-> sorted_indices,
              batch_size |-> smp[1].batch_size,
              num_batch_per_bucket |-> smp[1].num_batch_per_bucket, seed |-> seed]

BucketerizeCall ==
  /\ smp # <<>>
  /\ call.op = "__init__"
  /\ \E num_replicas \in 1..MaxReplicas, rank \in 0..(MaxReplicas - 1),
        num_consumed_samples \in 0..(MaxN - 1), seed \in BucketSeeds :
       /\ rank < num_replicas
       /\ Bucketerized(Strided(DropFirst(smp[1].sorted_indices, num_consumed_samples),
                               rank, num_replicas), seed)
  /\ UNCHANGED <<smp, gen, ckpt, seen, saved, from, chain, begun, stale, passes, restarts>>

NextFunctions == NewSamplerCall \/ BucketerizeCall

SpecFunctions == InitFunctions /\ [][NextFunctions]_vars

(***************************************************************************)
(* Vocabulary of the properties.                                           *)
(***************************************************************************)
IsPrefix(a, b) == Len(a) <= Len(b) /\ SubSeq(b, 1, Len(a)) = a

\* every index of the dataset exactly once
EachIndexOnce(x) == Len(x) = N /\ Elems(x) = 0..(N - 1)

AllFinished == \A r \in Procs : gen[r].st = "finished"

NoneCrashed == \A r \in Procs : ~Crashed(gen[r])

\* the running job was started from a checkpoint, by as many processes as
\* wrote it, each configured like the process of its rank in that job
ResumedWithSameConfig ==
  /\ from.has
  /\ Len(smp) = Len(from.smp)
  /\ \A r \in Procs : SameConfig(smp[r], from.smp[r])

\* no process of the job gets a padded or truncated shard: need_pad_num of
\* line 285, computed from the num_consumed_samples its pass began with, is 0
EvenShards ==
  \A r \in Procs :
    (DatasetLen(smp[r]) - begun[r].consumed) % smp[r].num_replicas = 0

\* the running job is the first job of its epoch: every pass started with
\* num_consumed_samples = 0
FreshJob == restarts = 0

BatchLens(batches) == [k \in 1..Len(batches) |-> Len(batches[k])]

(***************************************************************************)
(* C1 as the specification states it: a sampler that loads the state_dict   *)
(* taken after the k-th batch, configured like the sampler that wrote it,   *)
(* yields exactly the batches k+1, k+2, ... the writer had still to yield.  *)
(***************************************************************************)
C1_ResumeYieldsRest ==
  ResumedWithSameConfig =>
    \A r \in Procs :
      /\ ~Crashed(gen[r])
      /\ IsPrefix(out[r], from.rest[r])
      /\ gen[r].st = "finished" => out[r] = from.rest[r]

(***************************************************************************)
(* C1 as amended: the same, for shuffle = False, shards that are neither    *)
(* padded nor truncated, and a checkpoint taken before the last batch of    *)
(* the writer's pass.                                                      *)
(***************************************************************************)
C1_ResumeYieldsRestUnshuffled ==
  (ResumedWithSameConfig /\ ~smp[1].shuffle /\ (EvenShards \/ ~smp[1].pad)) =>
    \A r \in Procs :
      from.rest[r] # <<>> =>
        /\ ~Crashed(gen[r])
        /\ IsPrefix(out[r], from.rest[r])
        /\ gen[r].st = "finished" => out[r] = from.rest[r]

C1_Witness ==
  /\ ResumedWithSameConfig
  /\ ~smp[1].shuffle
  /\ Len(smp) = 2
  /\ EvenShards
  /\ gen[2].st = "finished"
  /\ Len(out[2]) >= 1
  /\ out[2] = from.rest[2]

(***************************************************************************)
(* C2: a single shard without drop_last, checkpointed and resumed by an     *)
(* identically configured sampler any number of times within one epoch,     *)
(* hands out every index of the dataset exactly once.  Stated for           *)
(* checkpoints taken while samples were still left to consume (a checkpoint *)
(* taken after the last batch restarts the epoch by design, line 386).      *)
(***************************************************************************)
C2_SingleShardEachIndexOnce ==
  (Len(smp) = 1 /\ ~smp[1].drop_last /\ chain.same /\ chain.mid) =>
    /\ ~Crashed(gen[1])
    /\ gen[1].st = "finished" => EachIndexOnce(seen \o Chain(out[1]))

\* the first job of the epoch was checkpointed and a second one runs, the
\* dataset divisible by both numbers of processes, drop_last off
ResumedOnceEvenly ==
  /\ restarts = 1
  /\ from.has
  /\ ~smp[1].drop_last
  /\ N % Len(from.smp) = 0
  /\ N % Len(smp) = 0

(***************************************************************************)
(* C3 as the specification states it: a fresh job of R_old shards is        *)
(* checkpointed in lock-step and resumed by R_new shards, N divisible by    *)
(* both, drop_last off: the indices handed out before the checkpoint and    *)
(* by the resumed pass are every index of the dataset exactly once.         *)
(***************************************************************************)
C3_ResizeEachIndexOnce ==
  ResumedOnceEvenly =>
    /\ NoneCrashed
    /\ AllFinished => EachIndexOnce(seen \o ChainAll(out))

\* the first job of the epoch was checkpointed while samples were left to
\* consume and a second one runs: the dataset divisible by the number of
\* processes of the first, the samples left by that of the second, drop_last
\* off
ResumedOnceEvenRest ==
  /\ restarts = 1
  /\ from.has
  /\ ~smp[1].drop_last
  /\ N % Len(from.smp) = 0
  /\ from.states.num_consumed_samples < N
  /\ (N - from.states.num_consumed_samples) % Len(smp) = 0

(***************************************************************************)
(* C3 as amended: a fresh job of R_old shards, N divisible by R_old, is     *)
(* checkpointed in lock-step while samples are left to consume and resumed  *)
(* by R_new shards, the number of samples left divisible by R_new (N need   *)
(* not be), drop_last off: the indices handed out before the checkpoint     *)
(* and by the resumed pass are every index of the dataset exactly once.     *)
(***************************************************************************)
C3_ResizeEachIndexOnceEvenRest ==
  ResumedOnceEvenRest =>
    /\ NoneCrashed
    /\ AllFinished => EachIndexOnce(seen \o ChainAll(out))

C3_Witness ==
  /\ ResumedOnceEvenRest
  /\ N % Len(smp) # 0
  /\ Len(from.smp) = 1
  /\ Len(smp) = 2
  /\ smp[1].shuffle
  /\ smp[1].batch_size # from.smp[1].batch_size
  /\ AllFinished
  /\ EachIndexOnce(seen \o ChainAll(out))

(***************************************************************************)
(* C4: in a fresh pass without drop_last every shard completes; with pad    *)
(* every index is handed out at least once; without pad every index handed  *)
(* out is an index of the dataset, none is handed out twice and no shard    *)
(* gets more than ceil(N / R) of them.                                     *)
(***************************************************************************)
C4_FreshPassPartition ==
  (FreshJob /\ ~smp[1].drop_last) =>
    /\ NoneCrashed
    /\ AllFinished =>
         IF smp[1].pad
         THEN 0..(N - 1) \subseteq Elems(ChainAll(out))
         ELSE /\ Elems(ChainAll(out)) \subseteq 0..(N - 1)
              /\ NoDup(ChainAll(out))
              /\ \A r \in Procs : SumLen(out[r]) <= CeilDiv(N, Len(smp))

(***************************************************************************)
(* C5: the assertion of line 298 never fails, in a fresh pass or in a       *)
(* pass resumed from a checkpoint.                                         *)
(***************************************************************************)
C5_AssertionNeverFails ==
  \A r \in Procs : gen[r].st # "AssertionError"

(***************************************************************************)
(* C6: in a fresh pass all shards yield batches of the same lengths and     *)
(* the same number of them; between two batches num_consumed_samples of     *)
(* every shard is the number of samples all shards have handed out, and     *)
(* it is 0 once the pass has completed.                                    *)
(***************************************************************************)
C6_LockStepCounter ==
  FreshJob =>
    \A r \in Procs :
      /\ ~Crashed(gen[r])
      /\ BatchLens(out[r]) = BatchLens(out[1])
      /\ gen[r].st = gen[1].st
      /\ Running(gen[r]) => smp[r].num_consumed_samples = Len(ChainAll(out))
      /\ gen[r].st = "finished" => smp[r].num_consumed_samples = 0

(***************************************************************************)
(* C7: a fresh pass yields as many batches as __len__() said before it;     *)
(* every batch has between 1 and batch_size indices, and exactly batch_size *)
(* when drop_last is set.                                                  *)
(***************************************************************************)
C7_FreshPassLen ==
  FreshJob =>
    \A r \in Procs :
      /\ gen[r].st = "finished" => Len(out[r]) = begun[r].len
      /\ \A k \in 1..Len(out[r]) :
           /\ Len(out[r][k]) >= 1
           /\ Len(out[r][k]) <= smp[r].batch_size
           /\ smp[r].drop_last => Len(out[r][k]) = smp[r].batch_size

(***************************************************************************)
(* C8 as the specification states it: the sampler of the worked example     *)
(* has sorted_indices [4,2,6,0,8,7,5,3,9,1], and a full pass yields the     *)
(* batches [4,2,6], [0,8,7], [5,3,9], [1], with __len__() = 4 before it.    *)
(***************************************************************************)
C8_WorkedExample ==
  IsExample(smp[1]) =>
    /\ smp[1].sorted_indices = <<4, 2, 6, 0, 8, 7, 5, 3, 9, 1>>
    /\ (gen[1].st = "finished" /\ begun[1].consumed = 0) =>
         /\ out[1] = <<<<4, 2, 6>>, <<0, 8, 7>>, <<5, 3, 9>>, <<1>>>>
         /\ begun[1].len = 4

(***************************************************************************)
(* C8 as amended: the sampler of the worked example has sorted_indices      *)
(* [4,2,6,8,0,7,5,3,1,9], and a full pass yields the batches [4,2,6],       *)
(* [8,0,7], [5,3,1], [9], with __len__() = 4 before it.                     *)
(***************************************************************************)
C8_WorkedExampleAsComputed ==
  IsExample(smp[1]) =>
    /\ smp[1].sorted_indices = <<4, 2, 6, 8, 0, 7, 5, 3, 1, 9>>
    /\ (gen[1].st = "finished" /\ begun[1].consumed = 0) =>
         /\ out[1] = <<<<4, 2, 6>>, <<8, 0, 7>>, <<5, 3, 1>>, <<9>>>>
         /\ begun[1].len = 4

C8_Witness ==
  /\ IsExample(smp[1])
  /\ gen[1].st = "finished"
  /\ begun[1].consumed = 0
  /\ begun[1].len = 4
  /\ Len(out[1]) = 4
  /\ out[1][4] = <<9>>

(***************************************************************************)
(* C9: during_iter is false on a new sampler, becomes true when a pass is   *)
(* asked for its first batch, false again when the pass completes, and no   *)
(* other call changes it (so it stays true when the loop is left early).    *)
(* Called while it is true, set_distributed and load_state_dict raise and   *)
(* leave the sampler as it was; called while it is false with valid         *)
(* arguments, they do not raise.                                           *)
(***************************************************************************)
C9_DuringIterGuard ==
  /\ call.op = "init" => ~smp[1].during_iter
  /\ call.op = "next" => smp[1].during_iter = (gen[1].st # "finished")
  /\ call.op \notin {"init", "next"} => smp[1].during_iter = call.during
  /\ Running(gen[1]) => smp[1].during_iter
  /\ call.op \in {"set_distributed", "load_state_dict"} =>
       /\ call.during => (call.raised /\ call.same)
       /\ (~call.during /\ call.valid) => ~call.raised

C9_Witness ==
  /\ call.op = "load_state_dict"
  /\ call.valid
  /\ call.during
  /\ call.raised
  /\ call.same
  /\ gen[1].st = "none"
  /\ smp[1].during_iter

(***************************************************************************)
(* C10: state_dict raises exactly when batch_size differs from              *)
(* old_batch_size or num_batch_per_bucket from old_num_batch_per_bucket,    *)
(* and leaves the sampler as it was.  After a load_state_dict of a          *)
(* checkpoint written with another batch_size or num_batch_per_bucket,      *)
(* state_dict raises until a pass has completed, and the first state_dict   *)
(* after that returns the sampler's batch_size, num_batch_per_bucket and    *)
(* num_replicas.                                                           *)
(***************************************************************************)
C10_StaleConfiguration ==
  call.op = "state_dict" =>
    /\ call.raised = (smp[1].batch_size # smp[1].old_batch_size
                        \/ smp[1].num_batch_per_bucket # smp[1].old_num_batch_per_bucket)
    /\ call.same
    /\ call.stale = "stale" => call.raised
    /\ call.stale = "cleared" =>
         /\ ~call.raised
         /\ ckpt.states.batch_size = smp[1].batch_size
         /\ ckpt.states.num_batch_per_bucket = smp[1].num_batch_per_bucket
         /\ ckpt.states.num_replicas = smp[1].num_replicas

C10_Witness ==
  /\ call.op = "state_dict"
  /\ call.stale = "cleared"
  /\ ~call.raised
  /\ smp[1].num_replicas = 2
  /\ ckpt.states.num_replicas = 2

(***************************************************************************)
(* C11: load_state_dict of a checkpoint whose sampler_type is not the       *)
(* sampler's class name, or whose length is not the size of the dataset,    *)
(* raises and changes no field of the sampler.  An accepted load sets       *)
(* num_consumed_samples to the checkpoint's value if that is smaller than   *)
(* the dataset size and to 0 otherwise (so 0 <= num_consumed_samples < N    *)
(* afterwards), shuffle to the checkpoint's value also when the sampler     *)
(* was built with the other one, and seed, epoch, old_batch_size,           *)
(* old_num_batch_per_bucket and old_num_replicas to the checkpoint's.       *)
(***************************************************************************)
C11_LoadStateDictContract ==
  call.op = "load_state_dict" =>
    /\ ~call.valid => (call.raised /\ smp[1] = call.before)
    /\ ~call.raised =>
         /\ smp[1].num_consumed_samples =
              (IF ckpt.states.num_consumed_samples < N
               THEN ckpt.states.num_consumed_samples ELSE 0)
         /\ 0 <= smp[1].num_consumed_samples
         /\ smp[1].num_consumed_samples < N
         /\ smp[1].shuffle = ckpt.states.shuffle
         /\ smp[1].seed = ckpt.states.seed
         /\ smp[1].epoch = ckpt.states.epoch
         /\ smp[1].old_batch_size = ckpt.states.batch_size
         /\ smp[1].old_num_batch_per_bucket = ckpt.states.num_batch_per_bucket
         /\ smp[1].old_num_replicas = ckpt.states.num_replicas

C11_Witness ==
  /\ call.op = "load_state_dict"
  /\ ~call.raised
  /\ call.before.shuffle # smp[1].shuffle
  /\ call.before.epoch # smp[1].epoch
  /\ ckpt.states.num_consumed_samples >= N
  /\ smp[1].num_consumed_samples = 0

\* the pass a sampler would run if it were iterated now: the exception of
\* the prelude, or the batches it is going to yield
NextPass(s) == IterPrelude(IterEnter(s))

\* the last call loaded into the sampler the state_dict of the sampler itself
RoundTrip ==
  /\ call.op = "load_state_dict"
  /\ ~call.raised
  /\ ~StateDictRaises(call.before)
  /\ ckpt.states = StateDict(call.before)

(***************************************************************************)
(* C12 as the specification states it: when no pass is in progress and      *)
(* state_dict() succeeds, load_state_dict(state_dict()) on the same         *)
(* sampler leaves the next pass (and with it every later one) as it would   *)
(* have been without the call, and a second round trip changes nothing.     *)
(***************************************************************************)
C12_RoundTrip ==
  RoundTrip =>
    /\ NextPass(smp[1]) = NextPass(call.before)
    /\ IterFinish(smp[1]) = IterFinish(call.before)
    /\ ~StateDictRaises(smp[1])
    /\ LoadStateDict(smp[1], StateDict(smp[1])) = smp[1]

\* the consecutive slices of batch_size indices of x from position data_idx,
\* with the shorter last slice unless drop_last
SlicesFrom(x, data_idx, batch_size, drop_last) ==
  LET left == IF data_idx >= Len(x) THEN 0 ELSE Len(x) - data_idx
      count == IF drop_last THEN left \div batch_size
               ELSE (left + batch_size - 1) \div batch_size
  IN [k \in 1..count |->
        [j \in 1..Min(batch_size, left - (k - 1) * batch_size) |->
           x[data_idx + (k - 1) * batch_size + j]]]

(***************************************************************************)
(* C13: a ReproducibleBatchSampler that loaded the state_dict taken after   *)
(* the k-th batch of a pass yields in its next pass the consecutive         *)
(* batch_size slices of the saved index_list from the saved data_idx on     *)
(* (the last, shorter one only when drop_last is false); with the           *)
(* batch_size and drop_last of the writer these are the batches k+1,        *)
(* k+2, ... of the writer's pass.  The pass after that one starts at        *)
(* cursor 0 over an index_list drawn anew from the wrapped sampler.         *)
(***************************************************************************)
C13_ReplayResume ==
  from.has =>
    /\ passes = 1 =>
         /\ IsPrefix(out[1], SlicesFrom(from.states.index_list, from.states.data_idx,
                                        smp[1].batch_size, smp[1].drop_last))
         /\ gen[1].st = "finished" =>
              out[1] = SlicesFrom(from.states.index_list, from.states.data_idx,
                                  smp[1].batch_size, smp[1].drop_last)
         /\ (gen[1].st = "finished"
               /\ smp[1].batch_size = from.smp[1].batch_size
               /\ smp[1].drop_last = from.smp[1].drop_last) => out[1] = from.rest
    /\ passes = 2 =>
         /\ begun[1].fresh
         /\ begun[1].data_idx = 0
         /\ begun[1].index_list = seen
         /\ IsPrefix(out[1], SlicesFrom(seen, 0, smp[1].batch_size, smp[1].drop_last))

C13_Witness ==
  /\ from.has
  /\ from.rest # <<>>
  /\ from.states.data_idx > 0
  /\ passes = 2
  /\ gen[1].st = "finished"
  /\ seen # from.states.index_list
  /\ Len(out[1]) >= 2

(***************************************************************************)
(* C14 as the specification states it: after every batch a pass has         *)
(* yielded, and right after load_state_dict of a checkpoint taken in the    *)
(* middle of a pass, __len__() is the number of batches the pass has        *)
(* still to yield.                                                         *)
(***************************************************************************)
C14_LenIsRemaining ==
  /\ Running(gen[1]) => SamplerLen(smp[1]) = Len(gen[1].batches) - gen[1].i
  /\ (call.op = "load_state_dict" /\ ~call.raised
        /\ smp[1].num_consumed_samples > 0 /\ NextPass(smp[1]).err = "none") =>
       SamplerLen(smp[1]) = Len(NextPass(smp[1]).batches)

\* the pass of a newly constructed sampler with the configuration of s, in
\* the given epoch
FreshPass(s, epoch) ==
  NextPass([SetDistributedAssigned(
              NewSampler(s.length, s.batch_size, s.num_batch_per_bucket, s.shuffle,
                         s.drop_last, s.seed),
              s.num_replicas, s.rank, s.pad) EXCEPT !.epoch = epoch])

\* the pass that runs, or has just ended, was begun while during_iter was
\* still true: the pass before it was left before its end
Reentered == begun[1].during /\ gen[1].st # "none"

(***************************************************************************)
(* C15: leaving a pass early changes no field of the sampler (epoch and     *)
(* the old_* fields included).  A pass started after that begins with       *)
(* num_consumed_samples = 0 and yields, batch by batch, the complete        *)
(* sequence a newly constructed sampler of the same configuration yields    *)
(* in this epoch, also when the pass that was left had been resumed from    *)
(* a checkpoint; during_iter stays true until this pass completes.          *)
(***************************************************************************)
C15_AbnormalReentry ==
  /\ call.op = "break" => smp[1] = call.before
  /\ Reentered =>
       /\ begun[1].consumed = 0
       /\ smp[1].during_iter = (gen[1].st # "finished")
       /\ Crashed(gen[1]) => FreshPass(smp[1], begun[1].epoch).err = gen[1].st
       /\ ~Crashed(gen[1]) =>
            /\ FreshPass(smp[1], begun[1].epoch).err = "none"
            /\ gen[1].batches = FreshPass(smp[1], begun[1].epoch).batches
            /\ out[1] = SubSeq(gen[1].batches, 1, gen[1].i)
            /\ gen[1].st = "finished" => out[1] = gen[1].batches

C15_Witness ==
  /\ Reentered
  /\ gen[1].st = "finished"
  /\ Len(out[1]) >= 2
  /\ ckpt.has
  /\ ckpt.states.num_consumed_samples > 0
  /\ ckpt.states.num_consumed_samples < N
  /\ ckpt.states.batch_size # smp[1].batch_size
  /\ smp[1].shuffle

\* the last call was the next() that ran a pass to its normal end
PassCompleted == call.op = "next" /\ gen[1].st = "finished"

(***************************************************************************)
(* C16: when a pass has completed normally (also one that yields no batch   *)
(* or whose last batch drop_last removed), during_iter is false,            *)
(* num_consumed_samples is 0, old_batch_size, old_num_batch_per_bucket      *)
(* and old_num_replicas are batch_size, num_batch_per_bucket and            *)
(* num_replicas, epoch is one less than before if it was negative and       *)
(* unchanged otherwise, and seed, shuffle, rank, num_replicas, pad,         *)
(* length and sorted_indices are as before.                                *)
(***************************************************************************)
C16_CompletedPass ==
  PassCompleted =>
    /\ ~smp[1].during_iter
    /\ smp[1].num_consumed_samples = 0
    /\ smp[1].old_batch_size = smp[1].batch_size
    /\ smp[1].old_num_batch_per_bucket = smp[1].num_batch_per_bucket
    /\ smp[1].old_num_replicas = smp[1].num_replicas
    /\ smp[1].epoch = (IF call.before.epoch < 0 THEN call.before.epoch - 1
                       ELSE call.before.epoch)
    /\ smp[1].seed = call.before.seed
    /\ smp[1].shuffle = call.before.shuffle
    /\ smp[1].rank = call.before.rank
    /\ smp[1].num_replicas = call.before.num_replicas
    /\ smp[1].pad = call.before.pad
    /\ smp[1].length = call.before.length
    /\ smp[1].sorted_indices = call.before.sorted_indices

C16_Witness ==
  /\ PassCompleted
  /\ call.before.epoch >= 0
  /\ smp[1].epoch = call.before.epoch
  /\ smp[1].drop_last
  /\ out[1] = <<>>
  /\ call.before.old_batch_size # smp[1].batch_size
  /\ smp[1].old_batch_size = smp[1].batch_size

\* abs(seed + epoch), the seed bucketerize gives the generator (line 326),
\* of the pass that begun[1] records
EffectiveSeed(s, epoch) == Abs(s.seed + epoch)

\* a pass begins on a sampler whose last pass ran to its end
NextPassBegins ==
  /\ gen[1].st = "none"
  /\ gen'[1].st # "none"
  /\ passes >= 1
  /\ ~smp[1].during_iter

(***************************************************************************)
(* C17: when set_epoch is never called, the pass that follows a normally    *)
(* completed pass uses another effective shuffle seed abs(seed + epoch)     *)
(* than the completed one, whatever the seed.                               *)
(***************************************************************************)
C17_NextPassOtherSeed ==
  [][NextPassBegins =>
       EffectiveSeed(smp[1], begun'[1].epoch) # EffectiveSeed(smp[1], begun[1].epoch)]_vars

C17_Witness ==
  /\ passes = 2
  /\ ~begun[1].during
  /\ Running(gen[1])
  /\ smp[1].shuffle
  /\ smp[1].seed = MaxPasses
  /\ begun[1].epoch = 0 - MaxPasses

\* x holds every number of 0 .. n-1 once
IsPermutation(x, n) == Len(x) = n /\ Elems(x) = 0..(n - 1)

\* the lengths along x never increase
NonIncreasing(x, len) ==
  \A i \in 1..(Len(x) - 1) : len[x[i] + 1] >= len[x[i + 1] + 1]

(***************************************************************************)
(* C18 as the specification states it: sorted_indices is a permutation of   *)
(* [0, N) along which the lengths never increase, and of two samples with   *)
(* equal length the one with the smaller index comes first.                 *)
(***************************************************************************)
C18_StableDescendingSort ==
  smp # <<>> =>
    /\ IsPermutation(smp[1].sorted_indices, Len(seen))
    /\ NonIncreasing(smp[1].sorted_indices, seen)
    /\ \A i \in 1..Len(seen) : \A j \in 1..Len(seen) :
         (i < j /\ seen[smp[1].sorted_indices[i] + 1] = seen[smp[1].sorted_indices[j] + 1])
           => smp[1].sorted_indices[i] < smp[1].sorted_indices[j]

(***************************************************************************)
(* C18 as amended: sorted_indices is a permutation of [0, N) along which    *)
(* the lengths never increase; it is the reversed ascending sort, so of     *)
(* two samples with equal length the one with the larger index comes        *)
(* first.                                                                  *)
(***************************************************************************)
C18_ReversedAscendingSort ==
  smp # <<>> =>
    /\ IsPermutation(smp[1].sorted_indices, Len(seen))
    /\ NonIncreasing(smp[1].sorted_indices, seen)
    /\ \A i \in 1..Len(seen) : \A j \in 1..Len(seen) :
         (i < j /\ seen[smp[1].sorted_indices[i] + 1] = seen[smp[1].sorted_indices[j] + 1])
           => smp[1].sorted_indices[i] > smp[1].sorted_indices[j]

C18_Witness ==
  /\ smp # <<>>
  /\ seen = <<1, 2, 1, 0, 2>>
  /\ smp[1].sorted_indices = <<4, 1, 2, 0, 3>>

\* the bucket of index v of the list x cut into runs of bucket_size positions
BucketOf(x, bucket_size, v) ==
  ((CHOOSE p \in 1..Len(x) : x[p] = v) - 1) \div bucket_size

\* the size bucketerize gives its buckets (line 325)
BucketSize(c) == Min(Len(c.sorted_indices), c.batch_size * c.num_batch_per_bucket)

(***************************************************************************)
(* C19: bucketerize on a non-empty index list returns batches that hold     *)
(* every index of the list once; the indices of a batch come from one       *)
(* bucket (one run of min(len, batch_size * num_batch_per_bucket)           *)
(* consecutive positions of the list); every batch but the last has         *)
(* batch_size indices and the last has 1 to batch_size; and the last        *)
(* batch returned is the last batch of the last bucket, wherever the        *)
(* shuffle of the batches puts the others.                                  *)
(***************************************************************************)
C19_Bucketerize ==
  call.op = "bucketerize" =>
    /\ Len(Chain(out[1])) = Len(call.sorted_indices)
    /\ Elems(Chain(out[1])) = Elems(call.sorted_indices)
    /\ \A k \in 1..Len(out[1]) : \A a \in 1..Len(out[1][k]) : \A b \in 1..Len(out[1][k]) :
         BucketOf(call.sorted_indices, BucketSize(call), out[1][k][a])
           = BucketOf(call.sorted_indices, BucketSize(call), out[1][k][b])
    /\ \A k \in 1..(Len(out[1]) - 1) : Len(out[1][k]) = call.batch_size
    /\ Len(out[1]) >= 1
    /\ Len(out[1][Len(out[1])]) >= 1
    /\ Len(out[1][Len(out[1])]) <= call.batch_size
    /\ \A a \in 1..Len(out[1][Len(out[1])]) :
         BucketOf(call.sorted_indices, BucketSize(call), out[1][Len(out[1])][a])
           = (Len(call.sorted_indices) - 1) \div BucketSize(call)
    /\ out[1][Len(out[1])]
         = Buckets(call.sorted_indices, call.batch_size, BucketSize(call),
                   Abs(call.seed))[Len(out[1])]

C19_Witness ==
  /\ call.op = "bucketerize"
  /\ Len(call.sorted_indices) = MaxN
  /\ call.batch_size = 2
  /\ call.num_batch_per_bucket = 1
  /\ Len(out[1]) = 3
  /\ Len(out[1][3]) = 1
  /\ out[1][1] # Buckets(call.sorted_indices, 2, 2, Abs(call.seed))[1]

(***************************************************************************)
(* C20 as the specification states it: a set_distributed call that raises   *)
(* (pass in progress, num_replicas not positive, rank outside               *)
(* 0 <= rank < num_replicas, or drop_last with num_replicas * batch_size    *)
(* above the possibly padded sample count) leaves num_replicas, rank and    *)
(* pad as they were; a call that does not raise changes these three         *)
(* fields and no other.                                                    *)
(***************************************************************************)
C20_SetDistributedAtomic ==
  call.op = "set_distributed" =>
    /\ call.raised =>
         /\ smp[1].num_replicas = call.before.num_replicas
         /\ smp[1].rank = call.before.rank
         /\ smp[1].pad = call.before.pad
    /\ ~call.raised =>
         smp[1] = SetDistributedAssigned(call.before, smp[1].num_replicas,
                                         smp[1].rank, smp[1].pad)

(***************************************************************************)
(* SpecPasses: a new sampler (epoch -1) with a seed >= 0 runs one pass      *)
(* after the other; set_epoch is never called.  seen records abs(seed +     *)
(* epoch), the seed bucketerize gave its generators, of every pass that     *)
(* ran to its end.                                                          *)
(***************************************************************************)
PassSeeds == 0..(MaxPasses + 1)

InitPasses ==
  \E len \in ProtocolDatasets, batch_size \in BatchSizes, nbpb \in BucketCounts,
     shuffle \in BOOLEAN, drop_last \in BOOLEAN, seed \in PassSeeds :
    InitWith(NewSampler(len, batch_size, nbpb, shuffle, drop_last, seed))

\* next() on the generator; the pass that ends with it is recorded
PassStepped(nx) ==
  /\ Iterated(nx)
  /\ seen' = IF nx.g.st = "finished"
             THEN Append(seen, EffectiveSeed(smp[1], smp[1].epoch))
             ELSE seen

PassStep ==
  /\ CanStep(gen[1])
  /\ gen[1].st = "none" => passes < MaxPasses + 1
  /\ PassStepped(NextBatch(smp[1], gen[1]))
  /\ begun' = IF gen[1].st = "none" THEN <<Begin(smp[1])>> ELSE begun
  /\ passes' = IF gen[1].st = "none" THEN passes + 1 ELSE passes
  /\ UNCHANGED <<ckpt, saved, from, chain, restarts>>

NextPasses == PassStep \/ Leave

SpecPasses == InitPasses /\ [][NextPasses]_vars

(***************************************************************************)
(* C21 as the specification states it: when set_epoch is never called, the  *)
(* effective seeds abs(seed + epoch) of any two normally completed passes   *)
(* of a sampler with seed >= 0 that started at epoch -1 are different.      *)
(***************************************************************************)
C21_NoTwoPassesSameSeed == NoDup(seen)
====
